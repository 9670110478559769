------------------------------- MODULE MCRecords -------------------------------
(***************************************************************************)
(* Small instances of Records.  Each behaviour belongs to one component,   *)
(* its focus, and the others stay as they start: the states of the run are *)
(* the sum of theirs, not the product.  Two components are looked at under *)
(* two bounds each: the operations of admin-api at one operator and two    *)
(* sessions, and at two operators and one session; the page at one session *)
(* with three frames, and at two sessions with one.                        *)
(***************************************************************************)
EXTENDS Records

CONSTANTS AnOperator, ASession

VARIABLE focus

MCInit ==
    /\ RecordsInit
    /\ focus \in {"listing", "manager", "one operator", "two operators",
                  "summaries", "notification", "portal", "one session",
                  "two sessions"}
    /\ CASE focus = "one operator" -> kind = "ingestion"
         [] focus = "two operators" -> kind # "ingestion"
         [] OTHER -> kind = "ingestion" /\ record = "none"
    /\ focus = "summaries" \/ transcript

OneOperator == \A a \in Operators : op'[a].pc # "idle" => a = AnOperator
OneBlockedSession == \A s \in BlockedSessions : state'[s] # "none" => s = ASession
OneSession == \A i \in Client!SessionIds : sess'[i].status # "idle" => i = 1
OneFrame == \A i \in Client!SessionIds : sess'[i].captured <= 1 /\ sess'[i].file <= 1

MCNext ==
    /\ UNCHANGED focus
    /\ \/ focus = "listing" /\ ListingStep
       \/ focus = "manager" /\ ManagerStep
       \/ focus = "one operator" /\ AdminStep /\ OneOperator
       \/ focus = "two operators" /\ AdminStep /\ OneBlockedSession
       \/ focus = "summaries" /\ SummaryStep
       \/ focus = "notification" /\ NoticeStep
       \/ focus = "portal" /\ PortalStep
       \/ focus = "one session" /\ ClientStep /\ OneSession
       \/ focus = "two sessions" /\ ClientStep /\ OneFrame

MCSpec == MCInit /\ [][MCNext]_<<focus, recordsVars>>
=============================================================================
