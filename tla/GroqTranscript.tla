----------------------------- MODULE GroqTranscript -----------------------------
(***************************************************************************)
(* transcriber-groq: one call of the backend, from the request to the      *)
(* result.  Groq lists words and segments side by side; the backend puts   *)
(* each word into the segments its midpoint lies in.                       *)
(***************************************************************************)
EXTENDS Naturals, Sequences

CONSTANTS
    MaxTime,      \* bound: the length of the audio
    MaxWords,     \* bounds on the answer
    MaxSegments,
    None

Times == 0 .. MaxTime
Intervals == {t \in Times \X Times : t[1] <= t[2]}

\* Segments without a gap or an overlap, from the start of the audio to its end.
Tile(segments) ==
    /\ segments # <<>>
    /\ segments[1][1] = 0 /\ segments[Len(segments)][2] = MaxTime
    /\ \A i \in 1 .. Len(segments) - 1 : segments[i][2] = segments[i + 1][1]

UpTo(n, values) == UNION {[1 .. k -> values] : k \in 0 .. n}

VARIABLES
    answer,  \* of Groq: words and segments, each with its interval, or a status
    result   \* of transcribe: for each segment the places of its words in the
             \* answer, whose order they keep, or an error

vars == <<answer, result>>

Statuses == {200, 400, 401, 429, 500}

Init ==
    /\ \/ answer = [status |-> None, words |-> <<>>, segments |-> <<>>]
       \/ \E status \in Statuses \ {200} :
            answer = [status |-> status, words |-> <<>>, segments |-> <<>>]
       \/ \E words \in UpTo(MaxWords, Intervals), segments \in UpTo(MaxSegments, Intervals) :
            answer = [status |-> 200, words |-> words, segments |-> segments]
    /\ result = None

\* A faulty variant: the end of a segment is in it.
InsideClosed(word, segment) ==
    2 * segment[1] <= word[1] + word[2] /\ word[1] + word[2] <= 2 * segment[2]

\* _words_inside; times are doubled, for the midpoint's half.
Inside(word, segment) ==
    2 * segment[1] <= word[1] + word[2] /\ word[1] + word[2] < 2 * segment[2]

WordsInside(segment) ==
    {j \in DOMAIN answer.words : Inside(answer.words[j], segment)}

\* _raise_for_status, and the timeout.
ErrorOf(status) ==
    CASE status = None -> "timeout"
      [] status = 401  -> "auth"
      [] status = 429  -> "rate_limit"
      [] status \in 400 .. 499 \ {401, 429} -> "request"
      [] OTHER -> "upstream"

Transcribe ==
    /\ result = None
    /\ result' = IF answer.status = 200
                 THEN [error |-> None,
                       words |-> [i \in DOMAIN answer.segments |->
                                    WordsInside(answer.segments[i])]]
                 ELSE [error |-> ErrorOf(answer.status), words |-> <<>>]
    /\ UNCHANGED answer

Next == Transcribe

Spec == Init /\ [][Next]_vars

-----------------------------------------------------------------------------
(* Properties.                                                             *)

\* "attributing every word to exactly one segment when the segment intervals
\* tile the audio": no word is lost and none is there twice, but for words
\* without length at the very end.
EachWordOnce ==
    result # None /\ answer.status = 200 /\ Tile(answer.segments) =>
        \A j \in DOMAIN answer.words :
            answer.words[j][1] < MaxTime =>
                \E i \in DOMAIN result.words :
                    \A k \in DOMAIN result.words : j \in result.words[k] <=> k = i
=============================================================================
