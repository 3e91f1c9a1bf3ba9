-------------------------- MODULE ConnectionRefresh --------------------------
(* A stored platform connection: its credential and its calendar.           *)
(*                                                                          *)
(* Callers that need the connection refresh an expiring credential under a  *)
(* durable claim: the provider may rotate the refresh token, and the old one *)
(* is dead before the new one is stored. The first calendar sync creates the *)
(* calendar under another claim in the same document. An administrator's    *)
(* reconnect, manual token or disconnect writes the document as a whole.    *)
EXTENDS Integers

CONSTANTS
  Callers,      \* requests that use the connection, again and again
  Admins,       \* settings requests: reconnect, manual token, disconnect
  MaxTokens,    \* bound: the refresh tokens the provider issues
  MaxClaims     \* bound: the refresh claims, and the provisioning claims

ASSUME ConnectionAssumption == MaxTokens \in Nat /\ MaxClaims \in Nat

VARIABLES
  conn,        \* the connection document
  provider,    \* whether it rotates; tokens issued (1..issued), spent and revoked
  calendars,   \* how many calendars were created
  claims,      \* refresh and provisioning claims made so far; each has its own id
  caller,      \* caller[c]: where it stands, its claim, and what it has in memory
  admin,       \* admin[a]: where it stands and what it has in memory
  overwritten  \* history: a whole-document write changed the calendar record

vars == <<conn, provider, calendars, claims, caller, admin, overwritten>>

None == [status |-> "none", id |-> 0]
Marks == [status: {"none", "claimed", "uncertain"}, id: Nat]

\* token 0: no refresh token. expiring: within the skew of its expiry. calendar:
\* whether calendarId is set.
Connection == [there: BOOLEAN, token: Nat, expiring: BOOLEAN, refresh: Marks,
               calendar: BOOLEAN, provisioning: Marks]

Absent == [there |-> FALSE, token |-> 0, expiring |-> FALSE, refresh |-> None,
           calendar |-> FALSE, provisioning |-> None]

\* What decodeConnection makes of a document: it leaves the refresh state out.
\* The expiry is replaced by every write that starts from it.
Decoded(doc) == [doc EXCEPT !.refresh = None, !.expiring = FALSE]

\* The type of every variable.
TypeOK ==
  /\ conn \in Connection
  /\ provider \in [rotates: BOOLEAN, issued: Nat, spent: SUBSET Nat, revoked: SUBSET Nat]
  /\ calendars \in Nat
  /\ claims \in [refresh: Nat, calendar: Nat]
  /\ caller \in [Callers -> [pc: {"idle", "refresh", "store", "quarantine", "ready",
                                  "create", "attach", "doubt"},
                             claim: Nat, read: Connection, got: Nat]]
  /\ admin \in [Admins -> [pc: {"idle", "save", "revoke", "remove"},
                           read: Connection, got: Nat]]
  /\ overwritten \in BOOLEAN

Idle == [pc |-> "idle", claim |-> 0, read |-> Absent, got |-> 0]
AdminIdle == [pc |-> "idle", read |-> Absent, got |-> 0]

\* A caller that goes on with its claim alone; one that has the connection.
Holding(id, pc) == [Idle EXCEPT !.pc = pc, !.claim = id]
Ready(doc) == [Idle EXCEPT !.pc = "ready", !.read = [Absent EXCEPT !.calendar = doc.calendar]]

Init ==
  /\ conn = Absent
  /\ provider \in [rotates: BOOLEAN, issued: {0}, spent: {{}}, revoked: {{}}]
  /\ calendars = 0
  /\ claims = [refresh |-> 0, calendar |-> 0]
  /\ caller = [c \in Callers |-> Idle]
  /\ admin = [a \in Admins |-> AdminIdle]
  /\ overwritten = FALSE

\* The document is written as a whole: what it said of the calendar goes.
Replace(doc) ==
  /\ conn' = doc
  /\ overwritten' = (\/ overwritten
                     \/ <<doc.calendar, doc.provisioning>> # <<conn.calendar, conn.provisioning>>)

----------------------------------------------------------------------------
(* Refreshing the credential.                                               *)

\* The credential nears its expiry.
Expire ==
  /\ conn.there /\ ~conn.expiring
  /\ conn' = [conn EXCEPT !.expiring = TRUE]
  /\ UNCHANGED <<provider, calendars, claims, caller, admin, overwritten>>

UseFresh(c) ==
  /\ caller[c].pc = "idle" /\ conn.there /\ ~conn.expiring
  /\ caller' = [caller EXCEPT ![c] = Ready(conn)]
  /\ UNCHANGED <<conn, provider, calendars, claims, admin, overwritten>>

Bug_Reclaims == conn.refresh.status # "uncertain"

Refreshable == conn.refresh.status = "none"

ClaimRefresh(c) ==
  LET id == claims.refresh + 1 IN
  /\ caller[c].pc = "idle" /\ conn.there /\ conn.expiring
  /\ Refreshable /\ conn.token # 0 /\ id <= MaxClaims
  /\ conn' = [conn EXCEPT !.refresh = [status |-> "claimed", id |-> id]]
  /\ claims' = [claims EXCEPT !.refresh = id]
  /\ caller' = [caller EXCEPT ![c] = [pc |-> "refresh", claim |-> id, read |-> Decoded(conn),
                                      got |-> 0]]
  /\ UNCHANGED <<provider, calendars, admin, overwritten>>

\* A claim whose lease ran out, which may be at any time, is not taken over:
\* whether the token was rotated is unknown, and the caller is told so.
ClaimExpired(c) ==
  /\ caller[c].pc = "idle" /\ conn.there /\ conn.expiring
  /\ conn.refresh.status = "claimed"
  /\ conn' = [conn EXCEPT !.refresh.status = "uncertain"]
  /\ UNCHANGED <<provider, calendars, claims, caller, admin, overwritten>>

Honoured(t) == t \notin provider.spent \cup provider.revoked

\* The provider rotates the token or keeps it, and its answer may be lost.
RefreshAccepted(c) ==
  LET t == caller[c].read.token
      new == IF provider.rotates THEN provider.issued + 1 ELSE t
  IN
  /\ caller[c].pc = "refresh" /\ Honoured(t)
  /\ provider.rotates => new <= MaxTokens
  /\ provider' = [provider EXCEPT !.issued = IF provider.rotates THEN new ELSE @,
                                  !.spent = IF provider.rotates THEN @ \cup {t} ELSE @]
  /\ \/ caller' = [caller EXCEPT ![c].pc = "store", ![c].got = new]
     \/ caller' = [caller EXCEPT ![c] = Holding(@.claim, "quarantine")]
  /\ UNCHANGED <<conn, calendars, claims, admin, overwritten>>

RefreshRefused(c) ==
  /\ caller[c].pc = "refresh"
  /\ caller' = [caller EXCEPT ![c] = Holding(@.claim, "quarantine")]
  /\ UNCHANGED <<conn, provider, calendars, claims, admin, overwritten>>

HoldsRefresh(c) == conn.refresh = [status |-> "claimed", id |-> caller[c].claim]

Refreshed(c) == [caller[c].read EXCEPT !.token = caller[c].got]

\* The document becomes what the caller read when it claimed, with the new
\* credential. The answer of the commit may be lost.
CompleteRefresh(c) ==
  /\ caller[c].pc = "store" /\ HoldsRefresh(c)
  /\ Replace(Refreshed(c))
  /\ \/ caller' = [caller EXCEPT ![c] = Ready(Refreshed(c))]
     \/ caller' = [caller EXCEPT ![c] = Holding(@.claim, "quarantine")]
  /\ UNCHANGED <<provider, calendars, claims, admin>>

\* The claim was lost, the connection is gone, or the commit fails.
CompleteFails(c) ==
  /\ caller[c].pc = "store"
  /\ caller' = [caller EXCEPT ![c] = Holding(@.claim, "quarantine")]
  /\ UNCHANGED <<conn, provider, calendars, claims, admin, overwritten>>

MarkUncertain(c) ==
  /\ caller[c].pc = "quarantine"
  /\ conn' = IF HoldsRefresh(c) THEN [conn EXCEPT !.refresh.status = "uncertain"]
             ELSE conn
  /\ caller' = [caller EXCEPT ![c] = Idle]
  /\ UNCHANGED <<provider, calendars, claims, admin, overwritten>>

----------------------------------------------------------------------------
(* The first calendar sync.                                                 *)

Bug_UncertainIsFree == ~conn.calendar /\ conn.provisioning.status # "claimed"

Provisionable == ~conn.calendar /\ conn.provisioning.status = "none"

\* Only a connection read without a calendar asks for one.
ClaimCalendar(c) ==
  LET id == claims.calendar + 1 IN
  /\ caller[c].pc = "ready" /\ ~caller[c].read.calendar
  /\ conn.there /\ Provisionable /\ id <= MaxClaims
  /\ conn' = [conn EXCEPT !.provisioning = [status |-> "claimed", id |-> id]]
  /\ claims' = [claims EXCEPT !.calendar = id]
  /\ caller' = [caller EXCEPT ![c] = Holding(id, "create")]
  /\ UNCHANGED <<provider, calendars, admin, overwritten>>

\* It has a calendar already, needs none, or is refused one.
UseOnly(c) ==
  /\ caller[c].pc = "ready"
  /\ caller' = [caller EXCEPT ![c] = Idle]
  /\ UNCHANGED <<conn, provider, calendars, claims, admin, overwritten>>

\* The answer may be lost, and an error leaves it open whether it was created.
CreateCalendar(c) ==
  /\ caller[c].pc = "create"
  /\ \/ /\ calendars' = calendars + 1
        /\ \E pc \in {"attach", "doubt"} : caller' = [caller EXCEPT ![c].pc = pc]
     \/ /\ caller' = [caller EXCEPT ![c].pc = "doubt"]
        /\ UNCHANGED calendars
  /\ UNCHANGED <<conn, provider, claims, admin, overwritten>>

HoldsCalendar(c) == conn.there /\ conn.provisioning.id = caller[c].claim

CompleteCalendar(c) ==
  /\ caller[c].pc = "attach"
  /\ \/ /\ HoldsCalendar(c)
        /\ conn' = [conn EXCEPT !.calendar = TRUE, !.provisioning = None]
        /\ caller' = [caller EXCEPT ![c] = Idle]
     \/ /\ caller' = [caller EXCEPT ![c].pc = "doubt"]
        /\ UNCHANGED conn
  /\ UNCHANGED <<provider, calendars, claims, admin, overwritten>>

MarkCalendarUncertain(c) ==
  /\ caller[c].pc = "doubt"
  /\ conn' = IF HoldsCalendar(c) THEN [conn EXCEPT !.provisioning.status = "uncertain"] ELSE conn
  /\ caller' = [caller EXCEPT ![c] = Idle]
  /\ UNCHANGED <<provider, calendars, claims, admin, overwritten>>

Crash(c) ==
  /\ caller[c].pc # "idle"
  /\ caller' = [caller EXCEPT ![c] = Idle]
  /\ UNCHANGED <<conn, provider, calendars, claims, admin, overwritten>>

----------------------------------------------------------------------------
(* The administrator.                                                       *)

NewToken == provider.issued + 1

Issue == provider' = [provider EXCEPT !.issued = NewToken] /\ NewToken <= MaxTokens

\* The callback has exchanged its code and reads what is stored. A provider
\* that rotates issues a refresh token; another may omit it.
Authorize(a) ==
  /\ admin[a].pc = "idle"
  /\ \/ /\ Issue
        /\ admin' = [admin EXCEPT ![a] = [pc |-> "save", read |-> Decoded(conn), got |-> NewToken]]
     \/ /\ ~provider.rotates
        /\ admin' = [admin EXCEPT ![a] = [pc |-> "save", read |-> Decoded(conn), got |-> 0]]
        /\ UNCHANGED provider
  /\ UNCHANGED <<conn, calendars, claims, caller, overwritten>>

\* It saves the new credential over what it had read.
SaveConnection(a) ==
  /\ admin[a].pc = "save"
  /\ Replace([admin[a].read EXCEPT !.there = TRUE,
                                   !.token = IF admin[a].got = 0 THEN @ ELSE admin[a].got])
  /\ admin' = [admin EXCEPT ![a] = AdminIdle]
  /\ UNCHANGED <<provider, calendars, claims, caller>>

\* A token entered by hand, with a refresh token of its own or none.
SaveManual(a) ==
  /\ admin[a].pc = "idle"
  /\ \/ Issue /\ Replace([Absent EXCEPT !.there = TRUE, !.token = NewToken])
     \/ Replace([Absent EXCEPT !.there = TRUE]) /\ UNCHANGED provider
  /\ UNCHANGED <<calendars, claims, caller, admin>>

StartDisconnect(a) ==
  /\ admin[a].pc = "idle" /\ conn.there
  /\ admin' = [admin EXCEPT ![a] = [AdminIdle EXCEPT !.pc = "revoke", !.got = conn.token]]
  /\ UNCHANGED <<conn, provider, calendars, claims, caller, overwritten>>

\* A failed revocation leaves the connection.
Revoke(a) ==
  /\ admin[a].pc = "revoke"
  /\ \/ /\ provider' = [provider EXCEPT !.revoked = @ \cup {admin[a].got}]
        /\ admin' = [admin EXCEPT ![a] = [AdminIdle EXCEPT !.pc = "remove"]]
     \/ /\ admin' = [admin EXCEPT ![a] = AdminIdle]
        /\ UNCHANGED provider
  /\ UNCHANGED <<conn, calendars, claims, caller, overwritten>>

DeleteConnection(a) ==
  /\ admin[a].pc = "remove"
  /\ Replace(Absent)
  /\ admin' = [admin EXCEPT ![a] = AdminIdle]
  /\ UNCHANGED <<provider, calendars, claims, caller>>

----------------------------------------------------------------------------

CallerStep(c) ==
  \/ UseFresh(c) \/ ClaimRefresh(c) \/ ClaimExpired(c)
  \/ RefreshAccepted(c) \/ RefreshRefused(c)
  \/ CompleteRefresh(c) \/ CompleteFails(c) \/ MarkUncertain(c)
  \/ ClaimCalendar(c) \/ UseOnly(c) \/ CreateCalendar(c)
  \/ CompleteCalendar(c) \/ MarkCalendarUncertain(c) \/ Crash(c)

AdminStep(a) ==
  \/ Authorize(a) \/ SaveConnection(a) \/ SaveManual(a)
  \/ StartDisconnect(a) \/ Revoke(a) \/ DeleteConnection(a)

Next == Expire \/ (\E c \in Callers : CallerStep(c)) \/ (\E a \in Admins : AdminStep(a))

Spec == Init /\ [][Next]_vars

----------------------------------------------------------------------------
(* What must hold.                                                          *)

\* A refresh token is used once: what a connection offers unmarked, and what a
\* caller is about to send, was never rotated away, although leases run out
\* under slow callers, callers die between rotation and storing, and reconnects
\* come in between. A token whose fate is unknown stays marked.
SpentOnce ==
  /\ conn.there /\ conn.refresh.status = "none" => conn.token \notin provider.spent
  /\ \A c \in Callers : caller[c].pc = "refresh" => caller[c].read.token \notin provider.spent

\* Syncs that race, die or lose an answer create one calendar between them, as
\* long as nobody wrote the document as a whole over what it said of it.
OneCalendar == overwritten \/ calendars <= 1
=============================================================================
