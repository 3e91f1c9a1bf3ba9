-------------------------- MODULE ConnectionProofs --------------------------
(* Proofs, for any callers, administrators and bounds, that a rotated        *)
(* refresh token is never used again and that racing syncs create one        *)
(* calendar unless the document was overwritten under them.                  *)
EXTENDS ConnectionRefresh, TLAPS

\* The types of the variables, by name: a leaf that needs one of them cites it.
Doc == Connection
CallerState == [pc: {"idle", "refresh", "store", "quarantine", "ready", "create", "attach",
                     "doubt"}, claim: Nat, read: Doc, got: Nat]
AdminState == [pc: {"idle", "save", "revoke", "remove"}, read: Doc, got: Nat]
Provider == [rotates: BOOLEAN, issued: Nat, spent: SUBSET Nat, revoked: SUBSET Nat]

\* The documents, marks and memories the actions build are well formed.
LEMMA DocFacts ==
  /\ None \in Marks /\ Absent \in Doc /\ Idle \in CallerState /\ AdminIdle \in AdminState
  /\ \A doc \in Doc : Decoded(doc) \in Doc /\ Ready(doc) \in CallerState
  /\ \A id \in Nat, pc \in {"quarantine", "create", "attach", "doubt"} :
       Holding(id, pc) \in CallerState
<1>1. None \in Marks
  BY DEF None, Marks
<1>2. Absent \in Doc
  BY <1>1 DEF Absent, Doc, Connection
<1>3. Idle \in CallerState /\ AdminIdle \in AdminState
  BY <1>2 DEF Idle, AdminIdle, CallerState, AdminState
<1>4. ASSUME NEW doc \in Doc PROVE Decoded(doc) \in Doc /\ Ready(doc) \in CallerState
  <2>1. Decoded(doc) \in Doc
    BY <1>1 DEF Decoded, Doc, Connection
  <2>2. [Absent EXCEPT !.calendar = doc.calendar] \in Doc
    BY <1>2 DEF Doc, Connection
  <2>3. Ready(doc) \in CallerState
    BY <1>3, <2>2 DEF Ready, CallerState
  <2> QED BY <2>1, <2>3
<1>5. ASSUME NEW id \in Nat, NEW pc \in {"quarantine", "create", "attach", "doubt"}
      PROVE  Holding(id, pc) \in CallerState
  BY <1>3 DEF Holding, CallerState
<1> QED BY <1>1, <1>2, <1>3, <1>4, <1>5

\* The type invariant holds at first.
LEMMA InitType == Init => TypeOK
<1> SUFFICES ASSUME Init PROVE TypeOK
  OBVIOUS
<1>1. conn \in Connection /\ caller \in [Callers -> CallerState] /\ admin \in [Admins -> AdminState]
  BY DocFacts DEF Init, Doc
<1>2. provider \in Provider /\ calendars \in Nat /\ claims \in [refresh: Nat, calendar: Nat]
  BY DEF Init, Provider
<1> QED BY <1>1, <1>2 DEF Init, TypeOK, CallerState, AdminState, Provider, Doc

\* The steps of a caller keep the types.
LEMMA CallerType == ASSUME TypeOK, NEW c \in Callers, CallerStep(c) PROVE TypeOK'
<1> DEFINE T == TypeOK
<1>0. /\ conn \in Doc /\ provider \in Provider /\ calendars \in Nat
      /\ claims \in [refresh: Nat, calendar: Nat] /\ overwritten \in BOOLEAN
      /\ caller \in [Callers -> CallerState] /\ admin \in [Admins -> AdminState]
      /\ caller[c] \in CallerState
  BY DEF TypeOK, CallerState, AdminState, Doc, Provider
<1>g. ASSUME conn' \in Doc, provider' \in Provider, calendars' \in Nat,
             claims' \in [refresh: Nat, calendar: Nat], overwritten' \in BOOLEAN,
             caller' \in [Callers -> CallerState], admin' \in [Admins -> AdminState]
      PROVE  TypeOK'
  BY <1>g DEF TypeOK, CallerState, AdminState, Doc, Provider
<1>h. ASSUME NEW s \in CallerState, caller' = [caller EXCEPT ![c] = s]
      PROVE  caller' \in [Callers -> CallerState]
  BY <1>0, <1>h
<1>i. ASSUME NEW pc \in {"store", "attach", "doubt"}, NEW got \in Nat
      PROVE  [caller[c] EXCEPT !.pc = pc, !.got = got] \in CallerState
  BY <1>0 DEF CallerState
<1>j. /\ caller[c].read \in Doc /\ caller[c].got \in Nat /\ caller[c].claim \in Nat
      /\ conn.refresh \in Marks /\ conn.provisioning \in Marks /\ conn.token \in Nat
  BY <1>0 DEF CallerState, Doc, Connection
<1>1. CASE UseFresh(c)
  BY <1>1, <1>0, <1>g, <1>h, DocFacts DEF UseFresh
<1>2. CASE ClaimRefresh(c)
  <2> DEFINE id == claims.refresh + 1
  <2>1. id \in Nat
    BY <1>0
  <2>2. conn' \in Doc /\ claims' \in [refresh: Nat, calendar: Nat]
    BY <1>2, <1>0, <2>1 DEF ClaimRefresh, Doc, Connection, Marks
  <2>3. [pc |-> "refresh", claim |-> id, read |-> Decoded(conn), got |-> 0] \in CallerState
    BY <1>0, <2>1, DocFacts DEF CallerState
  <2>4. caller' \in [Callers -> CallerState]
    BY <1>2, <1>h, <2>3 DEF ClaimRefresh
  <2> QED BY <1>2, <1>0, <1>g, <2>2, <2>4 DEF ClaimRefresh
<1>3. CASE ClaimExpired(c)
  <2>1. conn' \in Doc
    BY <1>3, <1>0, <1>j DEF ClaimExpired, Doc, Connection, Marks
  <2> QED BY <1>3, <1>0, <1>g, <2>1 DEF ClaimExpired
<1>4. CASE RefreshAccepted(c)
  <2> DEFINE t == caller[c].read.token
             new == IF provider.rotates THEN provider.issued + 1 ELSE t
  <2>1. t \in Nat /\ new \in Nat
    BY <1>0, <1>j DEF Doc, Connection, Provider
  <2>2. provider' \in Provider
    BY <1>4, <1>0, <2>1 DEF RefreshAccepted, Provider
  <2>3. caller' \in [Callers -> CallerState]
    <3>1. CASE caller' = [caller EXCEPT ![c].pc = "store", ![c].got = new]
      BY <3>1, <1>0, <2>1 DEF CallerState
    <3>2. CASE caller' = [caller EXCEPT ![c] = Holding(@.claim, "quarantine")]
      BY <3>2, <1>0, <1>j, DocFacts
    <3> QED BY <1>4, <3>1, <3>2 DEF RefreshAccepted
  <2> QED BY <1>4, <1>0, <1>g, <2>2, <2>3 DEF RefreshAccepted
<1>5. CASE RefreshRefused(c)
  BY <1>5, <1>0, <1>g, <1>j, DocFacts DEF RefreshRefused
<1>6. CASE CompleteRefresh(c)
  <2>1. Refreshed(c) \in Doc
    BY <1>j DEF Refreshed, Doc, Connection
  <2>2. conn' \in Doc /\ overwritten' \in BOOLEAN
    BY <1>6, <2>1, <1>0 DEF CompleteRefresh, Replace
  <2>3. caller' \in [Callers -> CallerState]
    BY <1>6, <1>0, <1>j, <2>1, DocFacts DEF CompleteRefresh
  <2> QED BY <1>6, <1>0, <1>g, <2>2, <2>3 DEF CompleteRefresh
<1>7. CASE CompleteFails(c)
  BY <1>7, <1>0, <1>g, <1>j, DocFacts DEF CompleteFails
<1>8. CASE MarkUncertain(c)
  <2>1. conn' \in Doc
    BY <1>8, <1>0, <1>j DEF MarkUncertain, Doc, Connection, Marks
  <2> QED BY <1>8, <1>0, <1>g, <1>h, <2>1, DocFacts DEF MarkUncertain
<1>9. CASE ClaimCalendar(c)
  <2> DEFINE id == claims.calendar + 1
  <2>1. id \in Nat
    BY <1>0
  <2>2. conn' \in Doc /\ claims' \in [refresh: Nat, calendar: Nat]
    BY <1>9, <1>0, <2>1 DEF ClaimCalendar, Doc, Connection, Marks
  <2>3. caller' \in [Callers -> CallerState]
    BY <1>9, <1>h, <2>1, DocFacts DEF ClaimCalendar
  <2> QED BY <1>9, <1>0, <1>g, <2>2, <2>3 DEF ClaimCalendar
<1>10. CASE UseOnly(c)
  BY <1>10, <1>0, <1>g, <1>h, DocFacts DEF UseOnly
<1>11. CASE CreateCalendar(c)
  <2>1. caller' \in [Callers -> CallerState]
    BY <1>11, <1>0 DEF CreateCalendar, CallerState
  <2>2. calendars' \in Nat
    BY <1>11, <1>0 DEF CreateCalendar
  <2> QED BY <1>11, <1>0, <1>g, <2>1, <2>2 DEF CreateCalendar
<1>12. CASE CompleteCalendar(c)
  <2>1. caller' \in [Callers -> CallerState]
    <3>1. CASE caller' = [caller EXCEPT ![c] = Idle]
      BY <3>1, <1>h, DocFacts
    <3>2. CASE caller' = [caller EXCEPT ![c].pc = "doubt"]
      BY <3>2, <1>0 DEF CallerState
    <3> QED BY <1>12, <3>1, <3>2 DEF CompleteCalendar
  <2>2. conn' \in Doc
    BY <1>12, <1>0, DocFacts DEF CompleteCalendar, Doc, Connection
  <2> QED BY <1>12, <1>0, <1>g, <2>1, <2>2 DEF CompleteCalendar
<1>13. CASE MarkCalendarUncertain(c)
  <2>1. conn' \in Doc
    BY <1>13, <1>0, <1>j DEF MarkCalendarUncertain, Doc, Connection, Marks
  <2> QED BY <1>13, <1>0, <1>g, <1>h, <2>1, DocFacts DEF MarkCalendarUncertain
<1>14. CASE Crash(c)
  BY <1>14, <1>0, <1>g, <1>h, DocFacts DEF Crash
<1> QED BY <1>1, <1>2, <1>3, <1>4, <1>5, <1>6, <1>7, <1>8, <1>9, <1>10, <1>11, <1>12, <1>13,
           <1>14 DEF CallerStep

\* The steps of an administrator keep the types.
LEMMA AdminType == ASSUME TypeOK, NEW a \in Admins, AdminStep(a) PROVE TypeOK'
<1>0. /\ conn \in Doc /\ provider \in Provider /\ overwritten \in BOOLEAN
      /\ admin \in [Admins -> AdminState] /\ admin[a] \in AdminState
      /\ provider.issued \in Nat /\ NewToken \in Nat /\ conn.token \in Nat
      /\ admin[a].read \in Doc /\ admin[a].got \in Nat
  BY DEF TypeOK, AdminState, Doc, Provider, NewToken, Connection
<1>g. ASSUME conn' \in Doc, provider' \in Provider, overwritten' \in BOOLEAN,
             admin' \in [Admins -> AdminState], UNCHANGED <<calendars, claims, caller>>
      PROVE  TypeOK'
  BY <1>g DEF TypeOK, AdminState, Doc, Provider
<1>h. ASSUME NEW s \in AdminState, admin' = [admin EXCEPT ![a] = s]
      PROVE  admin' \in [Admins -> AdminState]
  BY <1>0, <1>h
<1>i. ASSUME NEW doc \in Doc, Replace(doc) PROVE conn' \in Doc /\ overwritten' \in BOOLEAN
  BY <1>i, <1>0 DEF Replace
<1>j. Issue => provider' \in Provider
  BY <1>0 DEF Issue, Provider
<1>1. CASE Authorize(a)
  <2>1. /\ [pc |-> "save", read |-> Decoded(conn), got |-> NewToken] \in AdminState
        /\ [pc |-> "save", read |-> Decoded(conn), got |-> 0] \in AdminState
    BY <1>0, DocFacts DEF AdminState
  <2>2. admin' \in [Admins -> AdminState] /\ provider' \in Provider
    BY <1>1, <2>1, <1>h, <1>j, <1>0 DEF Authorize
  <2> QED BY <1>1, <2>2, <1>0, <1>g DEF Authorize
<1>2. CASE SaveConnection(a)
  <2> DEFINE doc == [admin[a].read EXCEPT !.there = TRUE,
                       !.token = IF admin[a].got = 0 THEN @ ELSE admin[a].got]
  <2>1. doc \in Doc
    BY <1>0 DEF Doc, Connection
  <2>2. conn' \in Doc /\ overwritten' \in BOOLEAN
    BY <1>2, <2>1, <1>i DEF SaveConnection
  <2> QED BY <1>2, <2>2, <1>0, <1>g, <1>h, DocFacts DEF SaveConnection
<1>3. CASE SaveManual(a)
  <2>1. /\ [Absent EXCEPT !.there = TRUE, !.token = NewToken] \in Doc
        /\ [Absent EXCEPT !.there = TRUE] \in Doc
    BY <1>0, DocFacts DEF Doc, Connection
  <2>2. conn' \in Doc /\ overwritten' \in BOOLEAN /\ provider' \in Provider
    BY <1>3, <2>1, <1>i, <1>j, <1>0 DEF SaveManual
  <2> QED BY <1>3, <2>2, <1>0, <1>g DEF SaveManual
<1>4. CASE StartDisconnect(a)
  <2>1. [AdminIdle EXCEPT !.pc = "revoke", !.got = conn.token] \in AdminState
    BY <1>0, DocFacts DEF AdminState
  <2> QED BY <1>4, <2>1, <1>0, <1>g, <1>h DEF StartDisconnect
<1>5. CASE Revoke(a)
  <2>1. [AdminIdle EXCEPT !.pc = "remove"] \in AdminState
    BY DocFacts DEF AdminState
  <2>2. admin' \in [Admins -> AdminState]
    BY <1>5, <2>1, <1>h, DocFacts DEF Revoke
  <2>3. provider' \in Provider
    BY <1>5, <1>0 DEF Revoke, Provider
  <2> QED BY <1>5, <2>2, <2>3, <1>0, <1>g DEF Revoke
<1>6. CASE DeleteConnection(a)
  BY <1>6, <1>0, <1>g, <1>h, <1>i, DocFacts DEF DeleteConnection
<1> QED BY <1>1, <1>2, <1>3, <1>4, <1>5, <1>6 DEF AdminStep

\* No step leaves the types.
LEMMA NextType == ASSUME TypeOK, [Next]_vars PROVE TypeOK'
<1>1. CASE Expire
  <2>1. conn' \in Connection
    BY <1>1 DEF Expire, TypeOK, Connection
  <2> QED BY <1>1, <2>1 DEF Expire, TypeOK
<1>2. CASE UNCHANGED vars
  BY <1>2 DEF vars, TypeOK
<1> QED BY <1>1, <1>2, CallerType, AdminType DEF Next

\* Every variable keeps its type.
THEOREM TypeCorrect == Spec => []TypeOK
  BY InitType, NextType, PTL DEF Spec

----------------------------------------------------------------------------
(* A token is used once.                                                    *)

\* Tokens that somebody holds in memory and may yet store.
Storing(c) == caller[c].pc = "store"
Saving(a) == admin[a].pc = "save"
Sending(c) == caller[c].pc = "refresh"
Sent(c) == caller[c].read.token

\* Under a provider that rotates: a token in memory that is to be stored was
\* never spent and is nobody else's; a token about to be sent is the sender's
\* alone, and the document that still holds it is marked.
TokenInv ==
  /\ provider.spent \subseteq 1..provider.issued
  /\ ~provider.rotates => provider.spent = {}
  /\ provider.rotates =>
       /\ conn.token <= provider.issued
       /\ conn.there /\ conn.refresh.status = "none" => conn.token \notin provider.spent
       /\ \A c \in Callers : Sending(c) =>
            /\ Sent(c) \in (1..provider.issued) \ provider.spent
            /\ conn.there /\ conn.token = Sent(c) => conn.refresh.status # "none"
            /\ \A d \in Callers : Sending(d) /\ Sent(d) = Sent(c) => d = c
       /\ \A c \in Callers : Storing(c) =>
            /\ caller[c].got \in (1..provider.issued) \ provider.spent
            /\ caller[c].got # conn.token
            /\ \A d \in Callers : /\ Storing(d) /\ caller[d].got = caller[c].got => d = c
                                  /\ Sending(d) => Sent(d) # caller[c].got
            /\ \A a \in Admins : Saving(a) => admin[a].got # caller[c].got
       /\ \A a \in Admins : Saving(a) =>
            /\ admin[a].got \in (1..provider.issued) \ provider.spent
            /\ admin[a].got # conn.token
            /\ \A b \in Admins : Saving(b) /\ admin[b].got = admin[a].got => b = a
            /\ \A d \in Callers : Sending(d) => Sent(d) # admin[a].got

\* A step after which the caller neither sends nor stores a token, and which
\* leaves token and provider alone, keeps it.
LEMMA TokenFrame ==
  ASSUME TypeOK, TokenInv, NEW c \in Callers, UNCHANGED <<provider, admin>>,
         conn'.there = conn.there, conn'.token = conn.token,
         conn'.refresh.status = "none" => conn.refresh.status = "none",
         \A d \in Callers \ {c} : caller'[d] = caller[d],
         ~(caller'[c].pc \in {"refresh", "store"})
  PROVE  TokenInv'
  BY DEF TokenInv, Sending, Storing, Saving, Sent

\* A caller's step keeps the invariant on tokens.
LEMMA CallerToken == ASSUME TypeOK, TokenInv, NEW c \in Callers, CallerStep(c) PROVE TokenInv'
<1>0. /\ conn \in Connection /\ caller \in [Callers -> CallerState] /\ caller[c] \in CallerState
      /\ provider \in Provider /\ provider.issued \in Nat /\ conn.token \in Nat
      /\ conn.refresh \in Marks
      /\ \A d \in Callers : /\ caller[d].got \in Nat /\ caller[d].claim \in Nat
                            /\ Sent(d) \in Nat
      /\ \A a \in Admins : admin[a].got \in Nat
  BY DEF TypeOK, Connection, CallerState, AdminState, Doc, Provider, Sent
<1>a. /\ \A doc : Ready(doc).pc = "ready"
      /\ \A id, pc : Holding(id, pc).pc = pc
      /\ Idle.pc = "idle"
  BY DEF Ready, Holding, Idle
<1>f. ASSUME NEW s, ~(s.pc \in {"refresh", "store"}), caller' = [caller EXCEPT ![c] = s],
             UNCHANGED <<provider, admin>>, conn'.there = conn.there, conn'.token = conn.token,
             conn'.refresh.status = "none" => conn.refresh.status = "none"
      PROVE  TokenInv'
  BY <1>f, <1>0, TokenFrame
<1>1. CASE UseFresh(c)
  BY <1>1, <1>a, <1>f DEF UseFresh
<1>2. CASE ClaimRefresh(c)
  <2>1. /\ conn'.token = conn.token /\ conn'.there = conn.there
        /\ conn'.refresh.status = "claimed" /\ UNCHANGED <<provider, admin>>
    BY <1>2, <1>0 DEF ClaimRefresh, Connection
  <2>2. /\ caller'[c].pc = "refresh" /\ caller'[c].read.token = conn.token
        /\ \A d \in Callers \ {c} : caller'[d] = caller[d]
    BY <1>2, <1>0 DEF ClaimRefresh, Decoded, Connection
  <2>3. conn.there /\ conn.refresh.status = "none" /\ conn.token # 0
    BY <1>2 DEF ClaimRefresh, Refreshable
  <2>4. ASSUME provider.rotates
        PROVE  /\ conn.token \in (1..provider.issued) \ provider.spent
               /\ \A d \in Callers : Sending(d) => Sent(d) # conn.token
    BY <2>3, <2>4, <1>0 DEF TokenInv
  <2> QED BY <2>1, <2>2, <2>3, <2>4 DEF TokenInv, Sending, Storing, Saving, Sent
<1>3. CASE ClaimExpired(c)
  <2>1. /\ conn'.token = conn.token /\ conn'.there = conn.there
        /\ conn'.refresh.status # "none" /\ UNCHANGED <<provider, admin, caller>>
    BY <1>3, <1>0 DEF ClaimExpired, Connection, Marks
  <2>2. ~(caller'[c].pc \in {"refresh", "store"})
    BY <2>1, <1>3 DEF ClaimExpired
  <2> QED BY <2>1, <2>2, TokenFrame
<1>4. CASE RefreshAccepted(c)
  <2> DEFINE t == Sent(c)
             new == IF provider.rotates THEN provider.issued + 1 ELSE t
  <2>0. caller[c].pc = "refresh" /\ UNCHANGED <<conn, admin>>
    BY <1>4 DEF RefreshAccepted
  <2>1. /\ \A d \in Callers \ {c} : caller'[d] = caller[d]
        /\ \/ caller'[c].pc = "store" /\ caller'[c].got = new
           \/ caller'[c].pc = "quarantine"
    <3>1. CASE caller' = [caller EXCEPT ![c].pc = "store", ![c].got = new]
      BY <3>1, <1>0 DEF CallerState
    <3>2. CASE caller' = [caller EXCEPT ![c] = Holding(@.claim, "quarantine")]
      BY <3>2, <1>0, <1>a
    <3> QED BY <1>4, <3>1, <3>2 DEF RefreshAccepted, Sent
  <2>2. CASE ~provider.rotates
    <3>1. ~provider'.rotates /\ provider'.spent = {}
      BY <2>2, <1>4, <1>0 DEF RefreshAccepted, TokenInv, Provider
    <3> QED BY <3>1 DEF TokenInv
  <2>3. CASE provider.rotates
    <3>1. /\ provider'.rotates /\ provider'.issued = provider.issued + 1
          /\ provider'.spent = provider.spent \cup {t}
      BY <2>3, <1>4, <1>0 DEF RefreshAccepted, Sent, Provider
    <3>2. t \in 1..provider.issued /\ new = provider.issued + 1
      BY <2>0, <2>3 DEF TokenInv, Sending
    <3>3. /\ provider'.spent \subseteq 1..provider'.issued /\ conn'.token <= provider'.issued
          /\ new \in (1..provider'.issued) \ provider'.spent /\ new # conn.token
      BY <2>0, <2>3, <3>1, <3>2, <1>0 DEF TokenInv
    <3>4. /\ \A d \in Callers : Sending(d) => Sent(d) # new
          /\ \A d \in Callers : Storing(d) => caller[d].got # new
          /\ \A a \in Admins : Saving(a) => admin[a].got # new
      BY <2>3, <3>2, <1>0 DEF TokenInv
    <3>5. conn'.there /\ conn'.refresh.status = "none" => conn'.token \notin provider'.spent
      BY <2>0, <2>3, <3>1 DEF TokenInv, Sending
    <3>6. ASSUME NEW d \in Callers, Sending(d)'
          PROVE  /\ Sending(d) /\ d # c /\ Sent(d)' = Sent(d) /\ Sent(d) # t
                 /\ Sent(d) \in (1..provider'.issued) \ provider'.spent
      <4>1. d # c /\ Sending(d) /\ Sent(d)' = Sent(d)
        BY <2>1, <3>6 DEF Sending, Sent
      <4> QED BY <4>1, <2>0, <2>3, <3>1, <1>0 DEF TokenInv, Sending
    <3>7. ASSUME NEW d \in Callers, Storing(d)'
          PROVE  /\ caller'[d].got \in (1..provider'.issued) \ provider'.spent
                 /\ caller'[d].got # conn'.token
                 /\ (d = c /\ caller'[d].got = new)
                      \/ (d # c /\ Storing(d) /\ caller'[d].got = caller[d].got)
      <4>1. CASE d = c
        BY <4>1, <3>7, <2>0, <2>1, <3>3 DEF Storing
      <4>2. CASE d # c
        <5>1. Storing(d) /\ caller'[d].got = caller[d].got
          BY <4>2, <3>7, <2>1 DEF Storing
        <5>2. caller[d].got # t
          BY <5>1, <2>0, <2>3 DEF TokenInv, Sending
        <5> QED BY <5>1, <5>2, <4>2, <2>0, <2>3, <3>1, <1>0 DEF TokenInv
      <4> QED BY <4>1, <4>2
    <3>8. ASSUME NEW a \in Admins, Saving(a)'
          PROVE  /\ Saving(a) /\ admin'[a] = admin[a]
                 /\ admin'[a].got \in (1..provider'.issued) \ provider'.spent
                 /\ admin'[a].got # conn'.token
      BY <3>8, <2>0, <2>3, <3>1, <1>0 DEF TokenInv, Saving, Sending
    <3>9. /\ \A d, e \in Callers : Sending(d)' /\ Sending(e)' /\ Sent(d)' = Sent(e)' => d = e
          /\ \A d \in Callers : Sending(d)' /\ conn'.there /\ conn'.token = Sent(d)'
               => conn'.refresh.status # "none"
          /\ \A d, e \in Callers : Storing(d)' /\ Sending(e)' => Sent(e)' # caller'[d].got
          /\ \A d, e \in Callers :
               Storing(d)' /\ Storing(e)' /\ caller'[d].got = caller'[e].got => d = e
          /\ \A d \in Callers, a \in Admins :
               Storing(d)' /\ Saving(a)' => admin'[a].got # caller'[d].got
          /\ \A d \in Callers, a \in Admins : Sending(d)' /\ Saving(a)' => Sent(d)' # admin'[a].got
          /\ \A a, b \in Admins : Saving(a)' /\ Saving(b)' /\ admin'[a].got = admin'[b].got => a = b
      BY <2>0, <2>3, <3>4, <3>6, <3>7, <3>8 DEF TokenInv
    <3> QED BY <2>3, <3>1, <3>3, <3>5, <3>6, <3>7, <3>8, <3>9 DEF TokenInv
  <2> QED BY <2>2, <2>3
<1>5. CASE RefreshRefused(c)
  BY <1>5, <1>a, <1>0, <1>f DEF RefreshRefused
<1>6. CASE CompleteRefresh(c)
  <2>1. /\ caller[c].pc = "store" /\ UNCHANGED <<provider, admin>>
        /\ conn' = Refreshed(c)
    BY <1>6 DEF CompleteRefresh, Replace
  <2>2. conn'.token = caller[c].got
    BY <2>1, <1>0 DEF Refreshed, CallerState, Doc, Connection
  <2>3. /\ \A d \in Callers \ {c} : caller'[d] = caller[d]
        /\ caller'[c].pc \in {"ready", "quarantine"}
    BY <1>6, <1>0, <1>a DEF CompleteRefresh
  <2> QED BY <2>1, <2>2, <2>3, <1>0 DEF TokenInv, Sending, Storing, Saving, Sent
<1>7. CASE CompleteFails(c)
  BY <1>7, <1>a, <1>0, <1>f DEF CompleteFails
<1>8. CASE MarkUncertain(c)
  <2>1. /\ conn'.token = conn.token /\ conn'.there = conn.there
        /\ conn'.refresh.status = "none" => conn.refresh.status = "none"
    BY <1>8, <1>0 DEF MarkUncertain, Connection, Marks
  <2> QED BY <1>8, <1>a, <2>1, <1>f DEF MarkUncertain
<1>9. CASE ClaimCalendar(c)
  <2>1. /\ conn'.token = conn.token /\ conn'.there = conn.there
        /\ conn'.refresh = conn.refresh
    BY <1>9, <1>0 DEF ClaimCalendar, Connection
  <2> QED BY <1>9, <1>a, <2>1, <1>f DEF ClaimCalendar
<1>10. CASE UseOnly(c)
  BY <1>10, <1>a, <1>0, <1>f DEF UseOnly
<1>11. CASE CreateCalendar(c)
  <2>1. /\ \A d \in Callers \ {c} : caller'[d] = caller[d]
        /\ ~(caller'[c].pc \in {"refresh", "store"})
    BY <1>11, <1>0 DEF CreateCalendar, CallerState
  <2> QED BY <1>11, <2>1, TokenFrame DEF CreateCalendar
<1>12. CASE CompleteCalendar(c)
  <2>1. /\ conn'.token = conn.token /\ conn'.there = conn.there
        /\ conn'.refresh = conn.refresh
    BY <1>12, <1>0 DEF CompleteCalendar, Connection
  <2>2. /\ \A d \in Callers \ {c} : caller'[d] = caller[d]
        /\ ~(caller'[c].pc \in {"refresh", "store"})
    BY <1>12, <1>0, <1>a DEF CompleteCalendar, CallerState
  <2> QED BY <1>12, <2>1, <2>2, TokenFrame DEF CompleteCalendar
<1>13. CASE MarkCalendarUncertain(c)
  <2>1. /\ conn'.token = conn.token /\ conn'.there = conn.there
        /\ conn'.refresh = conn.refresh
    BY <1>13, <1>0 DEF MarkCalendarUncertain, Connection
  <2> QED BY <1>13, <1>a, <2>1, <1>f DEF MarkCalendarUncertain
<1>14. CASE Crash(c)
  BY <1>14, <1>a, <1>0, <1>f DEF Crash
<1> QED BY <1>1, <1>2, <1>3, <1>4, <1>5, <1>6, <1>7, <1>8, <1>9, <1>10, <1>11, <1>12, <1>13,
           <1>14 DEF CallerStep

\* An administrator's step keeps it.
LEMMA AdminToken == ASSUME TypeOK, TokenInv, NEW a \in Admins, AdminStep(a) PROVE TokenInv'
<1>0. /\ conn \in Connection /\ admin \in [Admins -> AdminState] /\ admin[a] \in AdminState
      /\ provider \in Provider /\ provider.issued \in Nat /\ conn.token \in Nat
      /\ \A d \in Callers : caller[d].got \in Nat /\ Sent(d) \in Nat
      /\ \A b \in Admins : admin[b].got \in Nat
  BY DEF TypeOK, Connection, CallerState, AdminState, Doc, Provider, Sent
<1>f. ASSUME NEW s, s.pc # "save", admin' = [admin EXCEPT ![a] = s] \/ UNCHANGED admin,
             UNCHANGED caller, UNCHANGED provider \/ (Issue /\ ~Saving(a)),
             UNCHANGED conn \/ (conn' = [Absent EXCEPT !.there = TRUE, !.token = NewToken] /\ Issue)
                            \/ conn' = [Absent EXCEPT !.there = TRUE] \/ conn' = Absent
      PROVE  TokenInv'
  <2>1. /\ \A b \in Admins : Saving(b)' => Saving(b) /\ admin'[b] = admin[b]
        /\ \A d \in Callers : /\ Sending(d)' = Sending(d) /\ Storing(d)' = Storing(d)
                              /\ Sent(d)' = Sent(d) /\ caller'[d] = caller[d]
    BY <1>f, <1>0 DEF Saving, Sending, Storing, Sent
  <2>2. /\ provider'.rotates = provider.rotates /\ provider'.spent = provider.spent
        /\ provider'.issued \in Nat /\ provider'.issued >= provider.issued
        /\ Issue => provider'.issued = provider.issued + 1
    BY <1>f, <1>0 DEF Issue, NewToken, Provider
  <2>3. \/ UNCHANGED conn
        \/ Issue /\ conn'.token = provider.issued + 1
        \/ conn'.token = 0
    <3>1. /\ [Absent EXCEPT !.there = TRUE, !.token = NewToken].token = provider.issued + 1
          /\ [Absent EXCEPT !.there = TRUE].token = 0 /\ Absent.token = 0
      BY DEF Absent, NewToken
    <3>2. CASE conn' = [Absent EXCEPT !.there = TRUE, !.token = NewToken] /\ Issue
      BY <3>1, <3>2
    <3>3. CASE conn' = [Absent EXCEPT !.there = TRUE] \/ conn' = Absent
      BY <3>1, <3>3
    <3> QED BY <1>f, <3>2, <3>3
  <2>4. provider.rotates => /\ provider.issued + 1 \notin provider.spent /\ 0 \notin provider.spent
                            /\ conn'.token <= provider'.issued
    BY <2>2, <2>3, <1>0 DEF TokenInv
  <2> QED BY <2>1, <2>2, <2>3, <2>4, <1>0 DEF TokenInv
<1>1. CASE Authorize(a)
  <2>1. UNCHANGED <<conn, caller>>
    BY <1>1 DEF Authorize
  <2>2. CASE ~provider.rotates
    <3>1. ~provider'.rotates /\ provider'.spent = provider.spent
      BY <1>1, <2>2, <1>0 DEF Authorize, Issue, NewToken, Provider
    <3> QED BY <2>2, <3>1, <1>0 DEF TokenInv, Provider
  <2>3. CASE provider.rotates
    <3>1. /\ provider'.rotates /\ provider'.spent = provider.spent
          /\ provider'.issued = provider.issued + 1
      BY <1>1, <2>3, <1>0 DEF Authorize, Issue, NewToken, Provider
    <3>2. /\ Saving(a)' /\ admin'[a].got = provider.issued + 1
          /\ \A b \in Admins \ {a} : admin'[b] = admin[b]
      BY <1>1, <2>3, <1>0 DEF Authorize, Saving, NewToken
    <3>3. \A b \in Admins \ {a} : Saving(b)' = Saving(b)
      BY <3>2 DEF Saving
    <3>4. /\ conn.token # provider.issued + 1
          /\ \A d \in Callers : /\ Sending(d) => Sent(d) # provider.issued + 1
                                /\ Storing(d) => caller[d].got # provider.issued + 1
          /\ \A b \in Admins : Saving(b) => admin[b].got # provider.issued + 1
          /\ provider.issued + 1 \notin provider.spent
      BY <2>3, <1>0 DEF TokenInv
    <3>5. \A d \in Callers : Sending(d)' = Sending(d) /\ Storing(d)' = Storing(d) /\ Sent(d)' = Sent(d)
      BY <2>1 DEF Sending, Storing, Sent
    <3> QED BY <2>1, <2>3, <3>1, <3>2, <3>3, <3>4, <3>5, <1>0 DEF TokenInv
  <2> QED BY <2>2, <2>3
<1>2. CASE SaveConnection(a)
  <2>1. /\ Saving(a) /\ UNCHANGED <<provider, caller>>
        /\ conn'.token = IF admin[a].got = 0 THEN admin[a].read.token ELSE admin[a].got
    BY <1>2, <1>0 DEF SaveConnection, Saving, Replace, AdminState, Doc, Connection
  <2>2. /\ \A b \in Admins \ {a} : admin'[b] = admin[b]
        /\ admin'[a].pc = "idle"
    BY <1>2, <1>0 DEF SaveConnection, AdminIdle
  <2>3. \A b \in Admins : Saving(b)' => Saving(b) /\ b # a /\ admin'[b] = admin[b]
    BY <2>2 DEF Saving
  <2>4. provider.rotates => conn'.token = admin[a].got
    BY <2>1, <1>0 DEF TokenInv
  <2>5. \A d \in Callers : Sending(d)' = Sending(d) /\ Storing(d)' = Storing(d) /\ Sent(d)' = Sent(d)
    BY <2>1 DEF Sending, Storing, Sent
  <2> QED BY <2>1, <2>3, <2>4, <2>5, <1>0 DEF TokenInv
<1>3. CASE SaveManual(a)
  BY <1>3, <1>f DEF SaveManual, Replace, Saving, AdminIdle
<1>4. CASE StartDisconnect(a)
  <2>1. UNCHANGED <<conn, provider, caller>>
    BY <1>4 DEF StartDisconnect
  <2>2. \A b \in Admins : Saving(b)' => Saving(b) /\ admin'[b] = admin[b]
    BY <1>4, <1>0 DEF StartDisconnect, Saving, AdminIdle
  <2>3. \A d \in Callers : Sending(d)' = Sending(d) /\ Storing(d)' = Storing(d) /\ Sent(d)' = Sent(d)
    BY <2>1 DEF Sending, Storing, Sent
  <2> QED BY <2>1, <2>2, <2>3 DEF TokenInv
<1>5. CASE Revoke(a)
  <2>1. /\ provider'.rotates = provider.rotates /\ provider'.issued = provider.issued
        /\ provider'.spent = provider.spent /\ UNCHANGED <<conn, caller>>
    BY <1>5, <1>0 DEF Revoke, Provider
  <2>2. \A b \in Admins : Saving(b)' => Saving(b) /\ admin'[b] = admin[b]
    BY <1>5, <1>0 DEF Revoke, Saving, AdminIdle
  <2>3. \A d \in Callers : Sending(d)' = Sending(d) /\ Storing(d)' = Storing(d) /\ Sent(d)' = Sent(d)
    BY <2>1 DEF Sending, Storing, Sent
  <2> QED BY <2>1, <2>2, <2>3 DEF TokenInv
<1>6. CASE DeleteConnection(a)
  <2>1. AdminIdle.pc # "save"
    BY DEF AdminIdle
  <2> QED BY <1>6, <2>1, <1>f DEF DeleteConnection, Replace
<1> QED BY <1>1, <1>2, <1>3, <1>4, <1>5, <1>6 DEF AdminStep

\* The invariant on tokens is inductive and says what must hold.
LEMMA TokenInductive ==
  /\ Init => TokenInv
  /\ TypeOK /\ TokenInv /\ [Next]_vars => TokenInv'
  /\ TypeOK /\ TokenInv => SpentOnce
<1>1. Init => TokenInv
  BY DEF Init, TokenInv, Absent, Idle, AdminIdle, Sending, Storing, Saving
<1>2. ASSUME TypeOK, TokenInv, [Next]_vars PROVE TokenInv'
  <2>1. CASE Expire
    <3>1. /\ conn'.token = conn.token /\ conn'.there = conn.there
          /\ conn'.refresh = conn.refresh /\ UNCHANGED <<provider, caller, admin>>
      BY <2>1, <1>2 DEF Expire, TypeOK, Connection
    <3> QED BY <1>2, <3>1 DEF TokenInv, Sending, Storing, Saving, Sent
  <2>2. CASE UNCHANGED vars
    BY <1>2, <2>2 DEF vars, TokenInv, Sending, Storing, Saving, Sent
  <2> QED BY <1>2, <2>1, <2>2, CallerToken, AdminToken DEF Next
<1>3. TypeOK /\ TokenInv => SpentOnce
  BY DEF TypeOK, TokenInv, SpentOnce, Sending, Sent
<1> QED BY <1>1, <1>2, <1>3

\* A refresh token that was rotated away is never sent again, and the document
\* never offers it unmarked.
THEOREM SpentOnceHolds == Spec => []SpentOnce
<1>1. Init => TypeOK /\ TokenInv
  BY InitType, TokenInductive
<1>2. TypeOK /\ TokenInv /\ [Next]_vars => (TypeOK /\ TokenInv)'
  BY NextType, TokenInductive
<1>3. TypeOK /\ TokenInv => SpentOnce
  BY TokenInductive
<1> QED BY <1>1, <1>2, <1>3, PTL DEF Spec

----------------------------------------------------------------------------
(* One calendar.                                                            *)

\* A caller with a provisioning claim in its hands.
Provisioning(c) == caller[c].pc \in {"create", "attach", "doubt"}

\* A provisioning claim has one holder. Unless the document was overwritten, a
\* calendar exists only if the document says so or is marked, and a caller
\* about to create one holds the mark while there is none.
CalendarInv ==
  /\ conn.provisioning.status = "none" => conn.provisioning.id = 0
  /\ \A c \in Callers : Provisioning(c) =>
       /\ caller[c].claim \in 1..claims.calendar
       /\ \A d \in Callers : Provisioning(d) /\ caller[d].claim = caller[c].claim => d = c
  /\ \A c \in Callers : caller[c].read.provisioning.status = "none" =>
       caller[c].read.provisioning.id = 0
  /\ \A a \in Admins : admin[a].read.provisioning.status = "none" =>
       admin[a].read.provisioning.id = 0
  /\ ~overwritten =>
       /\ calendars <= 1
       /\ calendars = 1 => conn.calendar \/ conn.provisioning.status # "none"
       /\ \A c \in Callers : caller[c].pc = "create" =>
            /\ calendars = 0 /\ ~conn.calendar
            /\ conn.provisioning.status # "none" /\ conn.provisioning.id = caller[c].claim

\* Writing the document as a whole keeps it: either what it says of the calendar
\* stays, or the exception applies from now on.
LEMMA ReplaceCalendar ==
  ASSUME TypeOK, CalendarInv, NEW doc \in Connection, Replace(doc),
         doc.provisioning.status = "none" => doc.provisioning.id = 0,
         UNCHANGED <<calendars, claims>>,
         \A c \in Callers : \/ caller'[c] = caller[c]
                            \/ /\ ~(caller'[c].pc \in {"create", "attach", "doubt"})
                               /\ caller'[c].read.provisioning = None,
         \A a \in Admins : \/ admin'[a] = admin[a]
                           \/ admin'[a].read.provisioning = None
  PROVE  CalendarInv'
<1>1. conn' = doc /\ overwritten \in BOOLEAN
  BY DEF Replace, TypeOK
<1>2. ~overwritten' => /\ ~overwritten /\ doc.calendar = conn.calendar
                       /\ doc.provisioning = conn.provisioning
  BY DEF Replace
<1>3. \A c \in Callers : Provisioning(c)' => Provisioning(c) /\ caller'[c] = caller[c]
  BY DEF Provisioning
<1>4. /\ \A c \in Callers : (caller[c].read.provisioning.status = "none" =>
                             caller[c].read.provisioning.id = 0)'
      /\ \A a \in Admins : (admin[a].read.provisioning.status = "none" =>
                            admin[a].read.provisioning.id = 0)'
  BY DEF CalendarInv, None
<1>5. \A c \in Callers : caller'[c].pc = "create" => caller'[c] = caller[c]
  OBVIOUS
<1> QED BY <1>1, <1>2, <1>3, <1>4, <1>5 DEF CalendarInv

\* A caller that does not change the calendar record keeps the invariant, if it
\* makes no provisioning claim and is not about to create a calendar.
LEMMA CalendarFrame ==
  ASSUME TypeOK, CalendarInv, NEW c \in Callers,
         conn'.calendar = conn.calendar, conn'.provisioning = conn.provisioning,
         UNCHANGED <<admin, calendars, overwritten>>, claims'.calendar = claims.calendar,
         \A d \in Callers \ {c} : caller'[d] = caller[d],
         Provisioning(c)' => /\ Provisioning(c) /\ caller'[c].claim = caller[c].claim
                             /\ caller'[c].pc # "create",
         caller'[c].read.provisioning.status = "none" => caller'[c].read.provisioning.id = 0
  PROVE  CalendarInv'
<1>1. \A d \in Callers : Provisioning(d)' => Provisioning(d) /\ caller'[d].claim = caller[d].claim
  BY DEF Provisioning
<1>2. \A d \in Callers : caller'[d].pc = "create" => caller[d].pc = "create" /\ caller'[d] = caller[d]
  BY DEF Provisioning
<1>3. \A d \in Callers : (caller[d].read.provisioning.status = "none" =>
                          caller[d].read.provisioning.id = 0)'
  BY DEF CalendarInv
<1> QED BY <1>1, <1>2, <1>3 DEF CalendarInv

\* A caller's step keeps the invariant on the calendar.
LEMMA CallerCalendar ==
  ASSUME TypeOK, CalendarInv, NEW c \in Callers, CallerStep(c) PROVE CalendarInv'
<1>0. /\ conn \in Connection /\ caller \in [Callers -> CallerState] /\ caller[c] \in CallerState
      /\ conn.provisioning \in Marks /\ conn.refresh \in Marks /\ calendars \in Nat
      /\ claims \in [refresh: Nat, calendar: Nat] /\ claims.calendar \in Nat
      /\ \A d \in Callers : caller[d].claim \in Nat
      /\ overwritten \in BOOLEAN
  BY DEF TypeOK, Connection, CallerState, Doc
<1>a. /\ \A doc : Ready(doc).pc = "ready" /\ Ready(doc).read.provisioning = None
      /\ \A id, pc : /\ Holding(id, pc).pc = pc /\ Holding(id, pc).read.provisioning = None
                     /\ Holding(id, pc).claim = id
      /\ Idle.pc = "idle" /\ Idle.read.provisioning = None
      /\ None.status = "none" /\ None.id = 0
  BY DEF Ready, Holding, Idle, Absent, None
<1>f. ASSUME NEW s, ~(s.pc \in {"create", "attach", "doubt"}), caller' = [caller EXCEPT ![c] = s],
             s.read.provisioning.status = "none" => s.read.provisioning.id = 0,
             conn'.calendar = conn.calendar, conn'.provisioning = conn.provisioning,
             UNCHANGED <<admin, calendars, overwritten>>, claims'.calendar = claims.calendar
      PROVE  CalendarInv'
  BY <1>f, <1>0, CalendarFrame DEF Provisioning
<1>g. Decoded(conn).provisioning = conn.provisioning
  BY <1>0 DEF Decoded, Connection
<1>1. CASE UseFresh(c)
  BY <1>1, <1>a, <1>f DEF UseFresh
<1>2. CASE ClaimRefresh(c)
  <2> DEFINE s == [pc |-> "refresh", claim |-> claims.refresh + 1, read |-> Decoded(conn), got |-> 0]
  <2>1. /\ conn'.calendar = conn.calendar /\ conn'.provisioning = conn.provisioning
        /\ claims'.calendar = claims.calendar
    BY <1>2, <1>0 DEF ClaimRefresh, Connection
  <2>2. /\ ~(s.pc \in {"create", "attach", "doubt"})
        /\ s.read.provisioning.status = "none" => s.read.provisioning.id = 0
    BY <1>g DEF CalendarInv
  <2>3. caller' = [caller EXCEPT ![c] = s] /\ UNCHANGED <<admin, calendars, overwritten>>
    BY <1>2 DEF ClaimRefresh
  <2> HIDE DEF s
  <2> QED BY <2>1, <2>2, <2>3, <1>f
<1>3. CASE ClaimExpired(c)
  <2>1. /\ conn'.calendar = conn.calendar /\ conn'.provisioning = conn.provisioning
        /\ UNCHANGED <<admin, calendars, overwritten, claims, caller>>
        /\ caller[c].pc = "idle"
    BY <1>3, <1>0 DEF ClaimExpired, Connection
  <2> QED BY <2>1, CalendarFrame DEF Provisioning, CalendarInv
<1>4. CASE RefreshAccepted(c)
  <2>1. /\ \A d \in Callers \ {c} : caller'[d] = caller[d]
        /\ ~Provisioning(c)'
        /\ caller'[c].read.provisioning.status = "none" => caller'[c].read.provisioning.id = 0
    <3> DEFINE t == caller[c].read.token
               new == IF provider.rotates THEN provider.issued + 1 ELSE t
    <3>1. CASE caller' = [caller EXCEPT ![c].pc = "store", ![c].got = new]
      <4> HIDE DEF new
      <4>1. /\ caller'[c].read = caller[c].read /\ caller'[c].pc = "store"
            /\ \A d \in Callers \ {c} : caller'[d] = caller[d]
        BY <3>1, <1>0 DEF CallerState
      <4> QED BY <4>1 DEF Provisioning, CalendarInv
    <3>2. CASE caller' = [caller EXCEPT ![c] = Holding(@.claim, "quarantine")]
      BY <3>2, <1>0, <1>a DEF Provisioning
    <3> QED BY <1>4, <3>1, <3>2 DEF RefreshAccepted
  <2>2. UNCHANGED <<conn, admin, calendars, claims, overwritten>>
    BY <1>4 DEF RefreshAccepted
  <2> QED BY <2>1, <2>2, CalendarFrame
<1>5. CASE RefreshRefused(c)
  <2>1. /\ caller'[c] = Holding(caller[c].claim, "quarantine")
        /\ \A d \in Callers \ {c} : caller'[d] = caller[d]
        /\ UNCHANGED <<conn, provider, calendars, claims, admin, overwritten>>
    BY <1>5, <1>0 DEF RefreshRefused
  <2>2. ~Provisioning(c)' /\ caller'[c].read.provisioning = None
    BY <2>1, <1>a DEF Provisioning
  <2> QED BY <2>1, <2>2, <1>a, CalendarFrame
<1>6. CASE CompleteRefresh(c)
  <2>1. /\ Refreshed(c) \in Connection
        /\ Refreshed(c).provisioning.status = "none" => Refreshed(c).provisioning.id = 0
    BY <1>0 DEF Refreshed, CallerState, Doc, Connection, CalendarInv
  <2>2. /\ Replace(Refreshed(c)) /\ UNCHANGED <<provider, calendars, claims, admin>>
        /\ \/ caller' = [caller EXCEPT ![c] = Ready(Refreshed(c))]
           \/ caller' = [caller EXCEPT ![c] = Holding(@.claim, "quarantine")]
    BY <1>6 DEF CompleteRefresh
  <2>3. /\ \A d \in Callers \ {c} : caller'[d] = caller[d]
        /\ ~(caller'[c].pc \in {"create", "attach", "doubt"})
        /\ caller'[c].read.provisioning = None
    BY <2>2, <1>0, <1>a
  <2>4. \A d \in Callers : \/ caller'[d] = caller[d]
                           \/ /\ ~(caller'[d].pc \in {"create", "attach", "doubt"})
                              /\ caller'[d].read.provisioning = None
    BY <2>3
  <2>5. \A a \in Admins : admin'[a] = admin[a]
    BY <2>2
  <2> QED BY <2>1, <2>2, <2>4, <2>5, ReplaceCalendar
<1>7. CASE CompleteFails(c)
  <2>1. /\ caller'[c] = Holding(caller[c].claim, "quarantine")
        /\ \A d \in Callers \ {c} : caller'[d] = caller[d]
        /\ UNCHANGED <<conn, provider, calendars, claims, admin, overwritten>>
    BY <1>7, <1>0 DEF CompleteFails
  <2>2. ~Provisioning(c)' /\ caller'[c].read.provisioning = None
    BY <2>1, <1>a DEF Provisioning
  <2> QED BY <2>1, <2>2, <1>a, CalendarFrame
<1>8. CASE MarkUncertain(c)
  <2>1. conn'.calendar = conn.calendar /\ conn'.provisioning = conn.provisioning
    BY <1>8, <1>0 DEF MarkUncertain, Connection
  <2> QED BY <1>8, <2>1, <1>a, <1>f DEF MarkUncertain
<1>9. CASE ClaimCalendar(c)
  <2> DEFINE id == claims.calendar + 1
  <2>1. /\ caller'[c].pc = "create" /\ caller'[c].claim = id
        /\ caller'[c].read.provisioning = None
        /\ \A d \in Callers \ {c} : caller'[d] = caller[d]
    BY <1>9, <1>0, <1>a DEF ClaimCalendar
  <2>2. /\ conn'.provisioning.status = "claimed" /\ conn'.provisioning.id = id
        /\ conn'.calendar = conn.calendar /\ ~conn.calendar
        /\ conn.provisioning.status = "none" /\ claims'.calendar = id
        /\ UNCHANGED <<admin, calendars, overwritten>>
    BY <1>9, <1>0 DEF ClaimCalendar, Provisionable, Connection
  <2>3. ~overwritten => /\ calendars = 0 /\ \A d \in Callers : caller[d].pc # "create"
    BY <2>2, <1>0 DEF CalendarInv
  <2>4. /\ \A d \in Callers \ {c} : Provisioning(d)' = Provisioning(d)
        /\ \A d \in Callers : Provisioning(d) => caller[d].claim # id
        /\ \A d \in Callers : Provisioning(d) => caller[d].claim \in 1..id
        /\ id \in 1..id
    BY <2>1, <1>0 DEF Provisioning, CalendarInv
  <2>5. \A d \in Callers : (caller[d].read.provisioning.status = "none" =>
                            caller[d].read.provisioning.id = 0)'
    BY <2>1, <1>a DEF CalendarInv
  <2>6. /\ \A d \in Callers : (Provisioning(d) =>
             /\ caller[d].claim \in 1..claims.calendar
             /\ \A e \in Callers : Provisioning(e) /\ caller[e].claim = caller[d].claim => e = d)'
    <3>1. ASSUME NEW d \in Callers, Provisioning(d)', NEW e \in Callers, Provisioning(e)',
                 caller'[e].claim = caller'[d].claim
          PROVE  e = d
      BY <3>1, <2>1, <2>4 DEF CalendarInv
    <3>2. ASSUME NEW d \in Callers, Provisioning(d)' PROVE caller'[d].claim \in 1..claims'.calendar
      BY <3>2, <2>1, <2>2, <2>4
    <3> QED BY <3>1, <3>2
  <2>7. (~overwritten =>
          /\ calendars <= 1
          /\ calendars = 1 => conn.calendar \/ conn.provisioning.status # "none"
          /\ \A d \in Callers : caller[d].pc = "create" =>
               /\ calendars = 0 /\ ~conn.calendar
               /\ conn.provisioning.status # "none" /\ conn.provisioning.id = caller[d].claim)'
    BY <2>1, <2>2, <2>3, <1>0
  <2>8. (\A a \in Admins : admin[a].read.provisioning.status = "none" =>
          admin[a].read.provisioning.id = 0)'
    BY <2>2 DEF CalendarInv
  <2>9. conn'.provisioning.status # "none"
    BY <2>2
  <2> QED BY <2>5, <2>6, <2>7, <2>8, <2>9 DEF CalendarInv
<1>10. CASE UseOnly(c)
  BY <1>10, <1>a, <1>f DEF UseOnly
<1>11. CASE CreateCalendar(c)
  <2>1. /\ caller[c].pc = "create" /\ UNCHANGED <<conn, claims, admin, overwritten>>
        /\ caller'[c].pc \in {"attach", "doubt"} /\ caller'[c].claim = caller[c].claim
        /\ caller'[c].read = caller[c].read
        /\ \A d \in Callers \ {c} : caller'[d] = caller[d]
        /\ calendars' = calendars \/ calendars' = calendars + 1
    BY <1>11, <1>0 DEF CreateCalendar, CallerState
  <2>2. /\ \A d \in Callers : Provisioning(d)' = Provisioning(d) /\ caller'[d].claim = caller[d].claim
        /\ \A d \in Callers : caller'[d].read = caller[d].read
    BY <2>1 DEF Provisioning
  <2>3. ~overwritten => /\ calendars = 0 /\ conn.provisioning.status # "none"
                        /\ \A d \in Callers : caller'[d].pc # "create"
    <3>1. ASSUME ~overwritten, NEW d \in Callers, caller'[d].pc = "create" PROVE FALSE
      <4>1. d # c /\ caller[d].pc = "create"
        BY <3>1, <2>1
      <4>2. caller[d].claim = caller[c].claim
        BY <3>1, <4>1, <2>1 DEF CalendarInv
      <4> QED BY <4>1, <4>2, <2>1 DEF CalendarInv, Provisioning
    <3> QED BY <3>1, <2>1 DEF CalendarInv
  <2> QED BY <2>1, <2>2, <2>3, <1>0 DEF CalendarInv
<1>12. CASE CompleteCalendar(c)
  <2>1. CASE caller' = [caller EXCEPT ![c].pc = "doubt"] /\ UNCHANGED conn
    <3>1. /\ caller'[c].claim = caller[c].claim /\ caller'[c].read = caller[c].read
          /\ caller'[c].pc = "doubt" /\ caller[c].pc = "attach"
          /\ \A d \in Callers \ {c} : caller'[d] = caller[d]
          /\ UNCHANGED <<conn, claims, admin, calendars, overwritten>>
      BY <1>12, <2>1, <1>0 DEF CompleteCalendar, CallerState
    <3> QED BY <3>1, CalendarFrame DEF Provisioning, CalendarInv
  <2>2. CASE /\ HoldsCalendar(c) /\ caller' = [caller EXCEPT ![c] = Idle]
             /\ conn' = [conn EXCEPT !.calendar = TRUE, !.provisioning = None]
    <3>1. /\ caller'[c] = Idle /\ \A d \in Callers \ {c} : caller'[d] = caller[d]
          /\ conn'.calendar /\ conn'.provisioning = None
          /\ conn.provisioning.id = caller[c].claim /\ caller[c].pc = "attach"
          /\ UNCHANGED <<claims, admin, calendars, overwritten>>
      BY <1>12, <2>2, <1>0 DEF CompleteCalendar, HoldsCalendar, Connection
    <3>2. ~overwritten => \A d \in Callers : caller'[d].pc # "create"
      <4>1. ASSUME ~overwritten, NEW d \in Callers, caller'[d].pc = "create" PROVE FALSE
        <5>1. d # c /\ caller[d].pc = "create"
          BY <4>1, <3>1, <1>a
        <5>2. caller[d].claim = caller[c].claim
          BY <4>1, <5>1, <3>1 DEF CalendarInv
        <5> QED BY <5>1, <5>2, <3>1 DEF CalendarInv, Provisioning
      <4> QED BY <4>1
    <3>3. /\ \A d \in Callers : Provisioning(d)' => Provisioning(d) /\ caller'[d] = caller[d]
          /\ \A d \in Callers : (caller[d].read.provisioning.status = "none" =>
                                 caller[d].read.provisioning.id = 0)'
      BY <3>1, <1>a DEF Provisioning, CalendarInv
    <3> QED BY <3>1, <3>2, <3>3, <1>a DEF CalendarInv
  <2> QED BY <1>12, <2>1, <2>2 DEF CompleteCalendar
<1>13. CASE MarkCalendarUncertain(c)
  <2>1. CASE HoldsCalendar(c)
    <3>1. /\ caller'[c] = Idle /\ \A d \in Callers \ {c} : caller'[d] = caller[d]
          /\ conn'.calendar = conn.calendar /\ conn'.provisioning.status = "uncertain"
          /\ conn'.provisioning.id = conn.provisioning.id
          /\ UNCHANGED <<claims, admin, calendars, overwritten>>
      BY <1>13, <2>1, <1>0 DEF MarkCalendarUncertain, Connection, Marks
    <3>2. /\ \A d \in Callers : Provisioning(d)' => Provisioning(d) /\ caller'[d] = caller[d]
          /\ \A d \in Callers : caller'[d].pc = "create" => caller'[d] = caller[d]
          /\ \A d \in Callers : (caller[d].read.provisioning.status = "none" =>
                                 caller[d].read.provisioning.id = 0)'
      BY <3>1, <1>a DEF Provisioning, CalendarInv
    <3> QED BY <3>1, <3>2, <1>0 DEF CalendarInv
  <2>2. CASE ~HoldsCalendar(c)
    BY <1>13, <2>2, <1>a, <1>f DEF MarkCalendarUncertain
  <2> QED BY <2>1, <2>2
<1>14. CASE Crash(c)
  BY <1>14, <1>a, <1>f DEF Crash
<1> QED BY <1>1, <1>2, <1>3, <1>4, <1>5, <1>6, <1>7, <1>8, <1>9, <1>10, <1>11, <1>12, <1>13,
           <1>14 DEF CallerStep

\* An administrator's step keeps it.
LEMMA AdminCalendar ==
  ASSUME TypeOK, CalendarInv, NEW a \in Admins, AdminStep(a) PROVE CalendarInv'
<1>0. /\ conn \in Connection /\ admin \in [Admins -> AdminState] /\ admin[a] \in AdminState
      /\ provider \in Provider /\ provider.issued \in Nat
      /\ admin[a].read \in Connection /\ admin[a].got \in Nat /\ NewToken \in Nat
  BY DEF TypeOK, AdminState, Doc, Provider, NewToken
<1>a. /\ AdminIdle.read.provisioning = None /\ Absent.provisioning = None
      /\ None.status = "none" /\ None.id = 0
  BY DEF AdminIdle, Absent, None
<1>f. ASSUME NEW s, admin' = [admin EXCEPT ![a] = s] \/ UNCHANGED admin,
             s.read.provisioning.status = "none" => s.read.provisioning.id = 0,
             UNCHANGED <<conn, calendars, claims, caller, overwritten>>
      PROVE  CalendarInv'
  <2>1. \A b \in Admins : (admin[b].read.provisioning.status = "none" =>
                           admin[b].read.provisioning.id = 0)'
    BY <1>f, <1>0 DEF CalendarInv
  <2> QED BY <1>f, <2>1 DEF CalendarInv, Provisioning
<1>r. ASSUME NEW doc \in Connection, Replace(doc),
             doc.provisioning.status = "none" => doc.provisioning.id = 0,
             admin' = [admin EXCEPT ![a] = AdminIdle] \/ UNCHANGED admin,
             UNCHANGED <<calendars, claims, caller>>
      PROVE  CalendarInv'
  <2>1. \A b \in Admins : admin'[b] = admin[b] \/ admin'[b].read.provisioning = None
    BY <1>r, <1>0, <1>a
  <2>2. \A c \in Callers : caller'[c] = caller[c]
    BY <1>r
  <2> QED BY <1>r, <2>1, <2>2, ReplaceCalendar
<1>1. CASE Authorize(a)
  <2>1. PICK s : /\ admin' = [admin EXCEPT ![a] = s] /\ s.read = Decoded(conn)
                 /\ UNCHANGED <<conn, calendars, claims, caller, overwritten>>
    BY <1>1 DEF Authorize
  <2>2. s.read.provisioning = conn.provisioning
    BY <2>1, <1>0 DEF Decoded, Connection
  <2> QED BY <2>1, <2>2, <1>f DEF CalendarInv
<1>2. CASE SaveConnection(a)
  <2> DEFINE doc == [admin[a].read EXCEPT !.there = TRUE,
                       !.token = IF admin[a].got = 0 THEN @ ELSE admin[a].got]
  <2>1. doc \in Connection /\ doc.provisioning = admin[a].read.provisioning
    BY <1>0 DEF Connection
  <2>2. Replace(doc) /\ admin' = [admin EXCEPT ![a] = AdminIdle]
        /\ UNCHANGED <<calendars, claims, caller>>
    BY <1>2 DEF SaveConnection
  <2> HIDE DEF doc
  <2> QED BY <2>1, <2>2, <1>r DEF CalendarInv
<1>3. CASE SaveManual(a)
  <2>1. PICK doc : /\ Replace(doc) /\ UNCHANGED <<calendars, claims, caller, admin>>
                   /\ \/ doc = [Absent EXCEPT !.there = TRUE, !.token = NewToken]
                      \/ doc = [Absent EXCEPT !.there = TRUE]
    BY <1>3 DEF SaveManual
  <2>2. doc \in Connection /\ doc.provisioning = None
    <3>1. CASE doc = [Absent EXCEPT !.there = TRUE, !.token = NewToken]
      BY <3>1, <1>0, DocFacts, <1>a DEF Doc, Connection
    <3>2. CASE doc = [Absent EXCEPT !.there = TRUE]
      BY <3>2, DocFacts, <1>a DEF Doc, Connection
    <3> QED BY <2>1, <3>1, <3>2
  <2> QED BY <2>1, <2>2, <1>a, <1>r
<1>4. CASE StartDisconnect(a)
  <2> DEFINE s == [AdminIdle EXCEPT !.pc = "revoke", !.got = conn.token]
  <2>1. s.read.provisioning = None
    BY <1>a DEF AdminIdle
  <2>2. admin' = [admin EXCEPT ![a] = s] /\ UNCHANGED <<conn, calendars, claims, caller, overwritten>>
    BY <1>4 DEF StartDisconnect
  <2> HIDE DEF s
  <2> QED BY <2>1, <2>2, <1>a, <1>f
<1>5. CASE Revoke(a)
  <2>1. [AdminIdle EXCEPT !.pc = "remove"].read.provisioning = None
    BY <1>a DEF AdminIdle
  <2>2. PICK s : /\ admin' = [admin EXCEPT ![a] = s] /\ s.read.provisioning = None
                 /\ UNCHANGED <<conn, calendars, claims, caller, overwritten>>
    BY <1>5, <2>1, <1>a DEF Revoke
  <2> QED BY <2>2, <1>a, <1>f
<1>6. CASE DeleteConnection(a)
  BY <1>6, <1>a, <1>r, DocFacts DEF DeleteConnection, Doc
<1> QED BY <1>1, <1>2, <1>3, <1>4, <1>5, <1>6 DEF AdminStep

\* Racing, dying and interrupted syncs create one calendar between them, unless
\* a whole-document write changed what the document said of it.
THEOREM OneCalendarHolds == Spec => []OneCalendar
<1>1. Init => TypeOK /\ CalendarInv
  BY InitType DEF Init, CalendarInv, Provisioning, Absent, None, Idle, AdminIdle
<1>2. ASSUME TypeOK, CalendarInv, [Next]_vars PROVE CalendarInv'
  <2>1. CASE Expire
    <3>1. /\ conn'.calendar = conn.calendar /\ conn'.provisioning = conn.provisioning
          /\ UNCHANGED <<provider, calendars, claims, caller, admin, overwritten>>
      BY <2>1, <1>2 DEF Expire, TypeOK, Connection
    <3> QED BY <1>2, <3>1 DEF CalendarInv, Provisioning
  <2>2. CASE UNCHANGED vars
    BY <1>2, <2>2 DEF vars, CalendarInv, Provisioning
  <2> QED BY <1>2, <2>1, <2>2, CallerCalendar, AdminCalendar DEF Next
<1>3. TypeOK /\ CalendarInv => OneCalendar
  BY DEF TypeOK, CalendarInv, OneCalendar
<1>4. TypeOK /\ CalendarInv /\ [Next]_vars => (TypeOK /\ CalendarInv)'
  BY <1>2, NextType
<1> QED BY <1>1, <1>3, <1>4, PTL DEF Spec
=============================================================================
