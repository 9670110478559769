-------------------------------- MODULE Records --------------------------------
(***************************************************************************)
(* The services that keep records for users, and the page through which    *)
(* users speak to one that keeps none, side by side: they share no state,  *)
(* and a step is a step of one of them.  The listing and the session       *)
(* manager are this module's own; the others are instances.                *)
(***************************************************************************)
EXTENDS CursorListing, SessionManager

CONSTANTS
    None,
    BlockedSessions,  \* AdminOperations: the sessions of the user who is blocked,
    OwnerRequests,    \* and that user's own requests
    Operators,
    RecordKinds,
    MaxFailures,
    Writers,          \* Summaries: POST requests
    Readers,
    Notices,          \* Notification: requests
    MaxAttempts,
    Visits,           \* BillingPortal: requests
    MaxPayments,
    MaxFaults,
    MaxCalls,         \* StreamClient
    MaxSessions,
    MaxSources,
    MaxFrames

\* "Nobody's", the writer of an object that is not there, is no request.
ASSUME NoneIsNoWriter == None \notin Writers

\* "No customer" is none of the customers, which are numbered.
ASSUME NoneIsNoNumber == None \notin Nat

\* The bounds on what the live page opens are numbers.
ASSUME PageAssumption ==
    /\ MaxSessions \in Nat
    /\ MaxSources \in Nat
    /\ MaxFrames \in Nat

VARIABLES state, ended, patches, shown, kind, record, op, raced, failures
adminVars == <<state, ended, patches, shown, kind, record, op, raced, failures>>

Admin == INSTANCE AdminOperations WITH
    Sessions <- BlockedSessions, Requests <- OwnerRequests, MaxFaults <- MaxFailures,
    status <- state, expired <- ended, req <- patches, index <- shown,
    faults <- failures

VARIABLES transcript, body, row, post, get, audited, contended
summaryVars == <<transcript, body, row, post, get, audited, contended>>

Summary == INSTANCE Summaries WITH Requests <- Writers, req <- post

VARIABLES sends, received, kept, audit
notificationVars == <<sends, received, kept, audit>>

Notice == INSTANCE Notification WITH Requests <- Notices, req <- sends, record <- kept

VARIABLES customers, events, unlogged, visits, opened, crossed, overlap, faults
portalVars == <<customers, events, unlogged, visits, opened, crossed, overlap, faults>>

Portal == INSTANCE BillingPortal WITH
    Requests <- Visits, req <- visits, sessions <- opened, raced <- overlap

VARIABLES page, sess, source, call, overlapped
clientVars == <<page, sess, source, call, overlapped>>

Client == INSTANCE StreamClient

recordsVars == <<listingVars, vars, adminVars, summaryVars, notificationVars,
                 portalVars, clientVars>>

RecordsInit ==
    /\ ListingInit
    /\ Init
    /\ Admin!AdminInit
    /\ Summary!Init
    /\ Notice!Init
    /\ Portal!Init
    /\ Client!Init

ListingStep ==
    /\ ListingNext
    /\ UNCHANGED <<vars, adminVars, summaryVars, notificationVars, portalVars, clientVars>>
ManagerStep ==
    /\ Next
    /\ UNCHANGED <<listingVars, adminVars, summaryVars, notificationVars, portalVars,
                   clientVars>>
AdminStep ==
    /\ Admin!AdminNext
    /\ UNCHANGED <<listingVars, vars, summaryVars, notificationVars, portalVars, clientVars>>
SummaryStep ==
    /\ Summary!Next
    /\ UNCHANGED <<listingVars, vars, adminVars, notificationVars, portalVars, clientVars>>
NoticeStep ==
    /\ Notice!Next
    /\ UNCHANGED <<listingVars, vars, adminVars, summaryVars, portalVars, clientVars>>
PortalStep ==
    /\ Portal!Next
    /\ UNCHANGED <<listingVars, vars, adminVars, summaryVars, notificationVars, clientVars>>
ClientStep ==
    /\ Client!Next
    /\ UNCHANGED <<listingVars, vars, adminVars, summaryVars, notificationVars, portalVars>>

RecordsNext ==
    \/ ListingStep
    \/ ManagerStep
    \/ AdminStep
    \/ SummaryStep
    \/ NoticeStep
    \/ PortalStep
    \/ ClientStep

RecordsSpec == RecordsInit /\ [][RecordsNext]_recordsVars

-----------------------------------------------------------------------------
(* The properties of the instances, under the names they have there; those *)
(* of the listing and of the session manager are stated in their modules.  *)

\* What an operation reports to its operator holds: a user is blocked, and one
\* at least of those that flagged a record has seen it active.
ReportsAreTrue == Admin!BlockTakesHold /\ Admin!FirstFlagSaysActive

\* No reader meets half a summary, or two mixed, unless it was interfered with.
SummariesAreWhole == Summary!SummariesAreWhole

\* What the notification store says of a message is what its target saw.
RecordsAreTrue == Notice!RecordsAreTrue

\* A portal session opens for the user's one customer, who is the payer.
CustomersAreFound == Portal!PortalReachesPayer /\ Portal!PortalsShareCustomer

\* The client loses, repeats and reorders no frame of a session that goes on.
AudioIsKept == Client!AudioIsKept

\* The page can end what it has opened, unless two clicks overlapped.
PageIsInControl == Client!PageIsInControl
=============================================================================
