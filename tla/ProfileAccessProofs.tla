-------------------------- MODULE ProfileAccessProofs --------------------------
(***************************************************************************)
(* Theorems about the profiles' transactions: what a deletion closes stays *)
(* closed, a ticket lets in once, and a profile is protected exactly while *)
(* it has a passkey, for any profiles, browsers, passkeys and emails and   *)
(* any number of transactions in progress.                                 *)
(***************************************************************************)
EXTENDS ProfileAccess, FiniteSetTheorems, TLAPS

ProfileRows == [state : {"none", "anonymous", "protected", "tombstoned"},
                email : Emails \union {NoEmail}, eligible : BOOLEAN]
SessionRows == [profile : Profiles \union {NoProfile}, usable : BOOLEAN, recent : BOOLEAN]
TicketRows == [kind : TicketKinds \union {"none"}, profile : Profiles \union {NoProfile},
               email : Emails \union {NoEmail}]
CallRows == [kind : {"sign-in", "start", "recover"}, ticket : 0..MaxTickets,
             key : Keys \union {NoKey}, profile : Profiles, browser : Browsers,
             email : Emails \union {NoEmail}]
PageRows == [session : 0..MaxSessions, cache : {"none", "anonymous", "protected"},
             dialogue : {"none", "authenticate", "delete", "deleted"},
             about : Profiles \union {NoProfile}]

(* The type of each variable. *)
ProfilesTyped == profiles \in [Profiles -> ProfileRows]
PasskeysTyped == passkeys \in [Keys -> Profiles \union {NoProfile}]
SessionsTyped == /\ sessions \in [SessionIds -> SessionRows]
                 /\ \A s \in SessionIds : sessions[s].recent => sessions[s].usable
TicketsTyped ==
  /\ tickets \in [TicketIds -> TicketRows]
  /\ \A t \in TicketIds :
       /\ (tickets[t].profile # NoProfile) = (tickets[t].kind \notin {"none", "sign-in"})
       /\ (tickets[t].email # NoEmail) = (tickets[t].kind \in {"verify-email", "recover"})
CallsTyped == calls \in SUBSET CallRows /\ IsFiniteSet(calls) /\ Cardinality(calls) <= MaxCalls
PagesTyped == pages \in [Browsers -> PageRows]

(* Only finitely many credentials are registered; the session a page holds *)
(* is some profile's.                                                      *)
FinitelyRegistered == IsFiniteSet({k \in Keys : passkeys[k] # NoProfile})
Granted == \A b \in Browsers : pages[b].session # 0 =>
             sessions[pages[b].session].profile \in Profiles

(* A ticket that is still there has let nobody in.                         *)
Unopened == /\ opened \in [TicketIds -> Nat]
            /\ SingleUse
            /\ \A t \in TicketIds : tickets[t].kind # "none" => opened[t] = 0

(* The row locks of open transactions: what a first step read still holds  *)
(* at the second one, and no two transactions hold the same ticket.        *)
SignInHolds(c) == /\ c.ticket \in TicketIds /\ tickets[c.ticket].kind = "sign-in"
                  /\ c.key \in Keys /\ passkeys[c.key] = c.profile
RecoveryHolds(c) == /\ c.ticket \in TicketIds /\ c.key \in Keys
                    /\ tickets[c.ticket].kind = "recover" /\ tickets[c.ticket].profile = c.profile
Held == /\ \A c \in calls : c.kind = "sign-in" => SignInHolds(c)
        /\ \A c \in calls : c.kind = "recover" => RecoveryHolds(c)
        /\ \A c \in calls : c.kind = "start" => c.ticket = 0 /\ c.email \in Emails
        /\ \A c, d \in calls : c.ticket = d.ticket /\ c.ticket # 0 => c = d

(* A recovery is only ever under way for a profile that was protected.     *)
Recoverable == \A c \in calls : c.kind \in {"start", "recover"} =>
                 State(c.profile) \in {"protected", "tombstoned"}

Typed == /\ ProfilesTyped /\ PasskeysTyped /\ SessionsTyped
         /\ TicketsTyped /\ CallsTyped /\ PagesTyped

(* The inductive invariant: deletion closes every way in because the row   *)
(* locks it waits for are those of the transactions that could still open  *)
(* one, and a link outlives its profile only if it was asked for before.   *)
AccessInv == /\ Typed
             /\ FinitelyRegistered /\ Granted /\ Held /\ Recoverable /\ Unopened
             /\ DeletedStaysClosed
             /\ ProtectionIsAPasskey

-----------------------------------------------------------------------------
(* What the operators used by several actions guarantee.                   *)
LEMMA ActiveBrowser ==
  ASSUME Typed, Granted, NEW b \in Browsers, Active(b)
  PROVE  /\ pages[b].session \in SessionIds
         /\ ProfileOf(b) \in Profiles
         /\ State(ProfileOf(b)) \in {"none", "anonymous", "protected"}
         /\ sessions[pages[b].session].usable
<1>1. pages[b].session # 0 /\ State(ProfileOf(b)) # "tombstoned" /\ sessions[pages[b].session].usable
  BY DEF Active, Status
<1>2. pages[b].session \in 0..MaxSessions
  BY DEF Typed, PagesTyped, PageRows
<1>3. pages[b].session \in SessionIds /\ ProfileOf(b) \in Profiles
  BY <1>1, <1>2, AccessAssumption DEF Granted, ProfileOf, SessionIds
<1>4. profiles[ProfileOf(b)] \in ProfileRows
  BY <1>3 DEF Typed, ProfilesTyped
<1> QED
  BY <1>1, <1>3, <1>4 DEF State, ProfileRows

LEMMA CallKinds ==
  ASSUME Typed, NEW c \in calls
  PROVE  /\ c \in CallRows
         /\ c.kind \in {"sign-in", "start", "recover"}
         /\ c.profile \in Profiles /\ c.browser \in Browsers
BY DEF Typed, CallsTyped, CallRows

LEMMA Zero == 0 \notin TicketIds
BY DEF TicketIds

(* A ticket that a transaction holds is not replaced.                      *)
LEMMA IssueEffect ==
  ASSUME Typed, Held, NEW ticket, Issue(ticket)
  PROVE  \E t \in TicketIds : /\ tickets' = [tickets EXCEPT ![t] = ticket]
                              /\ opened' = [opened EXCEPT ![t] = 0]
                              /\ \A c \in calls : c.ticket # t
<1>1. PICK t \in TicketIds : /\ ~TicketLocked(t) \/ tickets[t] = NoTicket
                             /\ tickets' = [tickets EXCEPT ![t] = ticket]
                             /\ opened' = [opened EXCEPT ![t] = 0]
  BY DEF Issue
<1>2. ASSUME NEW c \in calls, c.ticket = t
      PROVE  FALSE
  <2>1. CASE ~TicketLocked(t)
    BY <1>2, <2>1 DEF TicketLocked
  <2>2. CASE tickets[t] = NoTicket
    BY <1>2, <2>2, CallKinds, Zero DEF Held, SignInHolds, RecoveryHolds, NoTicket
  <2> QED
    BY <1>1, <2>1, <2>2
<1> QED
  BY <1>1, <1>2

(* The page's grant changes only to the new session.                       *)
LEMMA ReceiveEffect ==
  ASSUME Typed, NEW b \in Browsers, NEW s \in SessionIds,
         NEW state \in {"none", "anonymous", "protected"}, Receive(b, s, state)
  PROVE  /\ PagesTyped'
         /\ \A d \in Browsers : pages'[d].session \in {pages[d].session, s}
<1>1. s \in 0..MaxSessions
  BY AccessAssumption DEF SessionIds
<1> QED
  BY <1>1 DEF Receive, Typed, PagesTyped, PageRows

LEMMA GrantedKept ==
  ASSUME Typed, Granted,
         \A s \in SessionIds : sessions[s].profile \in Profiles => sessions'[s].profile \in Profiles,
         \A b \in Browsers : \/ pages'[b].session \in {0, pages[b].session}
                             \/ sessions'[pages'[b].session].profile \in Profiles
  PROVE  Granted'
<1> SUFFICES ASSUME NEW b \in Browsers, pages'[b].session # 0
             PROVE  sessions'[pages'[b].session].profile \in Profiles
  BY DEF Granted
<1>1. CASE pages'[b].session = pages[b].session
  <2>1. pages[b].session \in SessionIds
    BY <1>1, AccessAssumption DEF Typed, PagesTyped, PageRows, SessionIds
  <2> QED
    BY <1>1, <2>1 DEF Granted
<1> QED
  BY <1>1

LEMMA OpeningEffect ==
  ASSUME NEW rows0 \in [SessionIds -> SessionRows],
         \A s \in SessionIds : rows0[s].recent => rows0[s].usable,
         NEW p \in Profiles, NEW s \in SessionIds, sessions' = Opening(rows0, s, p)
  PROVE  /\ SessionsTyped'
         /\ sessions'[s].profile = p
         /\ \A u \in SessionIds : u # s => sessions'[u] = rows0[u]
BY DEF Opening, SessionsTyped, SessionRows

LEMMA EndedEffect ==
  ASSUME SessionsTyped, NEW p
  PROVE  /\ Ended(p) \in [SessionIds -> SessionRows]
         /\ \A s \in SessionIds : /\ Ended(p)[s].recent => Ended(p)[s].usable
                                  /\ Ended(p)[s].profile = sessions[s].profile
                                  /\ Ended(p)[s].profile = p => ~Ended(p)[s].usable
                                  /\ Ended(p)[s].usable => sessions[s].usable
BY DEF Ended, SessionsTyped, SessionRows

LEMMA CallAdded ==
  ASSUME CallsTyped, NEW c \in CallRows, Cardinality(calls) < MaxCalls, calls' = calls \union {c}
  PROVE  CallsTyped'
<1>1. IsFiniteSet(calls) /\ Cardinality(calls) \in Nat /\ MaxCalls \in Nat
  BY FS_CardinalityType, AccessAssumption DEF CallsTyped
<1>2. IsFiniteSet(calls') /\ Cardinality(calls') <= Cardinality(calls) + 1
  BY <1>1, FS_AddElement
<1>3. Cardinality(calls') \in Nat
  BY <1>2, FS_CardinalityType
<1> QED
  BY <1>1, <1>2, <1>3 DEF CallsTyped

LEMMA CallRemoved ==
  ASSUME CallsTyped, NEW c, calls' = calls \ {c}
  PROVE  CallsTyped'
<1>1. IsFiniteSet(calls) /\ Cardinality(calls) \in Nat /\ MaxCalls \in Nat
  BY FS_CardinalityType, AccessAssumption DEF CallsTyped
<1>2. IsFiniteSet(calls') /\ Cardinality(calls') <= Cardinality(calls)
  BY <1>1, FS_Subset
<1>3. Cardinality(calls') \in Nat
  BY <1>2, FS_CardinalityType
<1> QED
  BY <1>1, <1>2, <1>3 DEF CallsTyped

LEMMA OneMoreRegistered ==
  ASSUME PasskeysTyped, FinitelyRegistered, NEW k \in Keys, NEW p,
         passkeys' = [passkeys EXCEPT ![k] = p]
  PROVE  FinitelyRegistered'
<1> DEFINE Old == {q \in Keys : passkeys[q] # NoProfile}
           New == {q \in Keys : passkeys'[q] # NoProfile}
<1>1. IsFiniteSet(Old \union {k})
  BY FS_AddElement DEF FinitelyRegistered
<1>2. New \in SUBSET (Old \union {k})
  BY DEF PasskeysTyped
<1>3. IsFiniteSet(New)
  BY <1>1, <1>2, FS_Subset
<1> QED
  BY <1>3 DEF FinitelyRegistered

LEMMA FewerRegistered ==
  ASSUME FinitelyRegistered, \A k \in Keys : passkeys'[k] # NoProfile => passkeys[k] # NoProfile
  PROVE  FinitelyRegistered'
<1> DEFINE Old == {q \in Keys : passkeys[q] # NoProfile}
           New == {q \in Keys : passkeys'[q] # NoProfile}
<1>1. IsFiniteSet(Old) /\ New \in SUBSET Old
  BY DEF FinitelyRegistered
<1>2. IsFiniteSet(New)
  BY <1>1, FS_Subset
<1> QED
  BY <1>2 DEF FinitelyRegistered

(* A transaction keeps what it holds if the rows it locked stay as they    *)
(* are.                                                                    *)
LEMMA HeldKept ==
  ASSUME Typed, Held, calls' \subseteq calls,
         \A c \in calls' : c.kind \in {"sign-in", "recover"} => tickets'[c.ticket] = tickets[c.ticket],
         \A c \in calls' : c.kind = "sign-in" => passkeys'[c.key] = passkeys[c.key]
  PROVE  Held'
BY DEF Held, SignInHolds, RecoveryHolds

LEMMA TicketsApart ==
  ASSUME Typed, Held, NEW c \in calls, NEW d \in calls, c # d,
         c.kind \in {"sign-in", "recover"}
  PROVE  c.ticket \in TicketIds /\ d.ticket # c.ticket
BY Zero DEF Held, SignInHolds, RecoveryHolds

-----------------------------------------------------------------------------
(* Anonymous use and protection.  In each lemma the conjuncts about what   *)
(* the action leaves alone come first, then one step per other conjunct.   *)
LEMMA CreateAnonymousProfileStep ==
  ASSUME AccessInv, NEW b \in Browsers, NEW p \in Profiles, NEW s \in SessionIds,
         CreateAnonymousProfile(b, p, s)
  PROVE  AccessInv'
<1> USE AccessAssumption DEF AccessInv
<1>1. PasskeysTyped' /\ TicketsTyped' /\ CallsTyped' /\ FinitelyRegistered' /\ Held' /\ Unopened'
  BY DEF CreateAnonymousProfile, Typed, PasskeysTyped, TicketsTyped, CallsTyped,
       FinitelyRegistered, Held, SignInHolds, RecoveryHolds, Unopened, SingleUse
<1>2. ProfilesTyped'
  BY DEF CreateAnonymousProfile, Receive, Opening, FreeSession, State, Typed, ProfilesTyped,
       ProfileRows
<1>3. SessionsTyped'
  BY OpeningEffect DEF CreateAnonymousProfile, Typed, SessionsTyped
<1>4. PagesTyped'
  <2>1. pages[b].cache \in {"none", "anonymous", "protected"}
    BY DEF Typed, PagesTyped, PageRows
  <2>2. Receive(b, s, pages[b].cache)
    BY DEF CreateAnonymousProfile
  <2> QED
    BY <2>1, <2>2, ReceiveEffect
<1>5. Granted'
  <2>1. \A u \in SessionIds : u # s => sessions'[u] = sessions[u]
    BY OpeningEffect DEF CreateAnonymousProfile, Typed, SessionsTyped
  <2>2. \A d \in Browsers : pages'[d].session \in {pages[d].session, s}
    BY DEF CreateAnonymousProfile, Receive, Typed, PagesTyped, PageRows
  <2>3. sessions'[s].profile \in Profiles
    BY OpeningEffect DEF CreateAnonymousProfile, Typed, SessionsTyped
  <2> QED
    BY <2>1, <2>2, <2>3, GrantedKept
<1>6. Recoverable'
  BY DEF CreateAnonymousProfile, Receive, Opening, FreeSession, State, Typed, ProfilesTyped,
       Recoverable
<1>7. DeletedStaysClosed'
  BY DEF CreateAnonymousProfile, Receive, Opening, FreeSession, State, Typed, ProfilesTyped,
       PasskeysTyped, SessionsTyped, TicketsTyped, DeletedStaysClosed, Registered
<1>8. ProtectionIsAPasskey'
  BY DEF CreateAnonymousProfile, Receive, Opening, FreeSession, State, Typed, ProfilesTyped,
       PasskeysTyped, TicketsTyped, ProtectionIsAPasskey, Registered
<1> QED
  BY <1>1, <1>2, <1>3, <1>4, <1>5, <1>6, <1>7, <1>8 DEF Typed

LEMMA ReadProfileStep ==
  ASSUME AccessInv, NEW b \in Browsers, ReadProfile(b)
  PROVE  AccessInv'
<1> USE AccessAssumption DEF AccessInv
<1>a. /\ pages[b].session \in SessionIds /\ ProfileOf(b) \in Profiles
      /\ State(ProfileOf(b)) \in {"none", "anonymous", "protected"}
      /\ sessions[pages[b].session].usable
  BY ActiveBrowser DEF ReadProfile
<1>1. /\ PasskeysTyped' /\ SessionsTyped' /\ TicketsTyped' /\ CallsTyped' /\ FinitelyRegistered'
      /\ Held' /\ Unopened'
  BY DEF ReadProfile, Typed, PasskeysTyped, SessionsTyped, TicketsTyped, CallsTyped,
       FinitelyRegistered, Held, SignInHolds, RecoveryHolds, Unopened, SingleUse
<1>2. ProfilesTyped'
  BY <1>a DEF ReadProfile, Typed, ProfilesTyped, ProfileRows
<1>3. PagesTyped'
  BY <1>a DEF ReadProfile, Typed, PagesTyped, PageRows
<1>4. Granted'
  BY <1>a DEF ReadProfile, Typed, PagesTyped, SessionsTyped, Granted
<1>5. Recoverable'
  BY <1>a DEF ReadProfile, Typed, ProfilesTyped, Recoverable, State
<1>6. DeletedStaysClosed'
  BY <1>a DEF ReadProfile, Typed, ProfilesTyped, PasskeysTyped, SessionsTyped, TicketsTyped,
       DeletedStaysClosed, State, Registered
<1>7. ProtectionIsAPasskey'
  BY <1>a DEF ReadProfile, Typed, ProfilesTyped, PasskeysTyped, TicketsTyped,
       ProtectionIsAPasskey, State, Registered
<1> QED
  BY <1>1, <1>2, <1>3, <1>4, <1>5, <1>6, <1>7 DEF Typed

LEMMA CreateRegistrationOptionsStep ==
  ASSUME AccessInv, NEW b \in Browsers, CreateRegistrationOptions(b)
  PROVE  AccessInv'
<1> USE AccessAssumption DEF AccessInv
<1>a. /\ pages[b].session \in SessionIds /\ ProfileOf(b) \in Profiles
      /\ State(ProfileOf(b)) \in {"none", "anonymous", "protected"}
      /\ sessions[pages[b].session].usable
  BY ActiveBrowser DEF CreateRegistrationOptions
<1>i. PICK t \in TicketIds : /\ tickets' = [tickets EXCEPT ![t] = Ticket("register", ProfileOf(b), NoEmail)]
                             /\ opened' = [opened EXCEPT ![t] = 0]
                             /\ \A d \in calls : d.ticket # t
  BY IssueEffect DEF CreateRegistrationOptions
<1>1. /\ ProfilesTyped' /\ PasskeysTyped' /\ SessionsTyped' /\ CallsTyped' /\ PagesTyped'
      /\ FinitelyRegistered' /\ Granted' /\ Recoverable'
  BY DEF CreateRegistrationOptions, Typed, ProfilesTyped, PasskeysTyped, SessionsTyped,
       CallsTyped, PagesTyped, FinitelyRegistered, Granted, Recoverable, State
<1>2. TicketsTyped'
  BY <1>a, <1>i DEF CreateRegistrationOptions, Ticket, Typed, TicketsTyped, TicketRows,
       TicketKinds
<1>3. Held'
  BY <1>a, <1>i DEF CreateRegistrationOptions, Ticket, Typed, TicketsTyped, PasskeysTyped, Held,
       SignInHolds, RecoveryHolds
<1>4. Unopened'
  BY <1>a, <1>i DEF CreateRegistrationOptions, Ticket, Typed, TicketsTyped, Unopened, SingleUse
<1>5. DeletedStaysClosed'
  BY <1>a, <1>i DEF CreateRegistrationOptions, Ticket, Typed, ProfilesTyped, PasskeysTyped,
       SessionsTyped, TicketsTyped, DeletedStaysClosed, State, Registered
<1>6. ProtectionIsAPasskey'
  BY <1>a, <1>i DEF CreateRegistrationOptions, Ticket, Typed, ProfilesTyped, PasskeysTyped,
       TicketsTyped, ProtectionIsAPasskey, State, Registered
<1> QED
  BY <1>1, <1>2, <1>3, <1>4, <1>5, <1>6 DEF Typed

LEMMA RegisterPasskeyStep ==
  ASSUME AccessInv, NEW b \in Browsers, NEW t \in TicketIds, NEW k \in Keys, RegisterPasskey(b,
         t, k)
  PROVE  AccessInv'
<1> USE AccessAssumption DEF AccessInv
<1>a. /\ pages[b].session \in SessionIds /\ ProfileOf(b) \in Profiles
      /\ State(ProfileOf(b)) \in {"none", "anonymous", "protected"}
      /\ sessions[pages[b].session].usable
  BY ActiveBrowser DEF RegisterPasskey
<1>1. CallsTyped'
  BY DEF RegisterPasskey, Typed, CallsTyped
<1>2. ProfilesTyped'
  BY <1>a DEF RegisterPasskey, Consume, NoTicket, Typed, ProfilesTyped, ProfileRows
<1>3. PasskeysTyped'
  BY <1>a DEF RegisterPasskey, Consume, NoTicket, Typed, PasskeysTyped
<1>4. SessionsTyped'
  BY <1>a DEF RegisterPasskey, Consume, NoTicket, Typed, SessionsTyped, SessionRows
<1>5. TicketsTyped'
  BY <1>a DEF RegisterPasskey, Consume, NoTicket, Typed, TicketsTyped, TicketRows, TicketKinds
<1>6. PagesTyped'
  BY <1>a DEF RegisterPasskey, Consume, NoTicket, Typed, PagesTyped, PageRows
<1>7. FinitelyRegistered'
  BY <1>a, OneMoreRegistered DEF RegisterPasskey, Typed, RecoveryHolds
<1>8. Granted'
  BY <1>a DEF RegisterPasskey, Consume, NoTicket, Typed, PagesTyped, SessionsTyped, Granted
<1>9. Held'
  <2>1. \A c \in calls : c.kind \in {"sign-in", "recover"} => tickets'[c.ticket] = tickets[c.ticket]
    BY DEF RegisterPasskey, Consume, Held, SignInHolds, RecoveryHolds, Typed, TicketsTyped
  <2>2. \A c \in calls : c.kind = "sign-in" => passkeys'[c.key] = passkeys[c.key]
    BY DEF RegisterPasskey, Held, SignInHolds, Typed, PasskeysTyped, CallsTyped, CallRows
  <2> QED
    BY <2>1, <2>2, HeldKept DEF RegisterPasskey
<1>10. Recoverable'
  BY <1>a DEF RegisterPasskey, Consume, NoTicket, Typed, ProfilesTyped, Recoverable, State
<1>11. Unopened'
  BY <1>a DEF RegisterPasskey, Consume, NoTicket, Typed, TicketsTyped, Unopened, SingleUse
<1>12. DeletedStaysClosed'
  BY <1>a DEF RegisterPasskey, Consume, NoTicket, Typed, ProfilesTyped, PasskeysTyped,
       SessionsTyped, TicketsTyped, DeletedStaysClosed, State, Registered
<1>13. ProtectionIsAPasskey'
  BY <1>a DEF RegisterPasskey, Consume, NoTicket, Typed, ProfilesTyped, PasskeysTyped,
       TicketsTyped, ProtectionIsAPasskey, State, Registered
<1> QED
  BY <1>1, <1>2, <1>3, <1>4, <1>5, <1>6, <1>7, <1>8, <1>9, <1>10, <1>11, <1>12, <1>13 DEF Typed

LEMMA RenewSessionStep ==
  ASSUME AccessInv, NEW b \in Browsers, NEW s \in SessionIds, RenewSession(b, s)
  PROVE  AccessInv'
<1> USE AccessAssumption DEF AccessInv
<1>a. /\ pages[b].session \in SessionIds /\ ProfileOf(b) \in Profiles
      /\ State(ProfileOf(b)) \in {"none", "anonymous", "protected"}
      /\ sessions[pages[b].session].usable
  BY ActiveBrowser DEF RenewSession
<1> DEFINE rows0 == [sessions EXCEPT ![pages[b].session] = [@ EXCEPT !.usable = FALSE, !.recent = FALSE]]
<1>h. /\ rows0 \in [SessionIds -> SessionRows]
      /\ \A u \in SessionIds : /\ rows0[u].recent => rows0[u].usable
                               /\ rows0[u].profile = sessions[u].profile
                               /\ rows0[u].usable => sessions[u].usable
  BY <1>a DEF Typed, SessionsTyped, SessionRows
<1>o. sessions' = Opening(rows0, s, ProfileOf(b))
  BY DEF RenewSession
<1> HIDE DEF rows0
<1>s. /\ SessionsTyped' /\ sessions'[s].profile = ProfileOf(b)
      /\ \A u \in SessionIds : u # s => sessions'[u] = rows0[u]
  BY <1>a, <1>h, <1>o DEF Opening, SessionsTyped, SessionRows, Typed
<1>1. /\ ProfilesTyped' /\ PasskeysTyped' /\ TicketsTyped' /\ CallsTyped' /\ FinitelyRegistered'
      /\ Held' /\ Recoverable' /\ Unopened' /\ ProtectionIsAPasskey'
  BY DEF RenewSession, Typed, ProfilesTyped, PasskeysTyped, TicketsTyped, CallsTyped,
       FinitelyRegistered, Held, SignInHolds, RecoveryHolds, Recoverable, State, Unopened,
       SingleUse, ProtectionIsAPasskey, Registered
<1>2. SessionsTyped'
  BY <1>s
<1>3. PagesTyped'
  <2>1. pages[b].cache \in {"none", "anonymous", "protected"}
    BY DEF Typed, PagesTyped, PageRows
  <2>2. Receive(b, s, pages[b].cache)
    BY DEF RenewSession
  <2> QED
    BY <2>1, <2>2, ReceiveEffect
<1>4. Granted'
  <2>1. \A d \in Browsers : pages'[d].session \in {pages[d].session, s}
    BY DEF RenewSession, Receive, Typed, PagesTyped, PageRows
  <2> QED
    BY <1>a, <1>h, <1>s, <2>1, GrantedKept
<1>5. DeletedStaysClosed'
  <2>1. UNCHANGED <<profiles, passkeys, tickets, calls>>
    BY DEF RenewSession
  <2>2. \A u \in SessionIds : \/ sessions'[u].profile = ProfileOf(b)
                              \/ sessions'[u].profile = sessions[u].profile /\ (sessions'[u].usable => sessions[u].usable)
    BY <1>h, <1>s
  <2>3. \A p \in Profiles : State(p)' = State(p) /\ Registered(p)' = Registered(p)
    BY <2>1 DEF State, Registered
  <2> QED
    BY <1>a, <2>1, <2>2, <2>3 DEF DeletedStaysClosed
<1> QED
  BY <1>1, <1>2, <1>3, <1>4, <1>5 DEF Typed

LEMMA RevokePasskeyStep ==
  ASSUME AccessInv, NEW b \in Browsers, NEW k \in Keys, RevokePasskey(b, k)
  PROVE  AccessInv'
<1> USE AccessAssumption DEF AccessInv
<1>a. /\ pages[b].session \in SessionIds /\ ProfileOf(b) \in Profiles
      /\ State(ProfileOf(b)) \in {"none", "anonymous", "protected"}
      /\ sessions[pages[b].session].usable
  BY ActiveBrowser DEF RevokePasskey
<1>1. /\ ProfilesTyped' /\ SessionsTyped' /\ TicketsTyped' /\ CallsTyped' /\ PagesTyped'
      /\ Granted' /\ Recoverable' /\ Unopened'
  BY DEF RevokePasskey, Typed, ProfilesTyped, SessionsTyped, TicketsTyped, CallsTyped, PagesTyped,
       Granted, Recoverable, State, Unopened, SingleUse
<1>2. PasskeysTyped'
  BY <1>a DEF RevokePasskey, KeyLocked, Removable, Typed, PasskeysTyped
<1>3. FinitelyRegistered'
  BY FewerRegistered DEF RevokePasskey, Typed, PasskeysTyped
<1>4. Held'
  BY <1>a DEF RevokePasskey, KeyLocked, Removable, Typed, TicketsTyped, PasskeysTyped, Held,
       SignInHolds, RecoveryHolds
<1>5. DeletedStaysClosed'
  BY <1>a DEF RevokePasskey, KeyLocked, Removable, Typed, ProfilesTyped, PasskeysTyped,
       SessionsTyped, TicketsTyped, DeletedStaysClosed, State, Registered
<1>6. ProtectionIsAPasskey'
  <2> PICK p \in Profiles : p = ProfileOf(b)
    BY <1>a
  <2>1. Registered(p) \in SUBSET {q \in Keys : passkeys[q] # NoProfile}
    BY <1>a, AccessAssumption DEF Registered
  <2>2. IsFiniteSet(Registered(p))
    BY <2>1, FS_Subset DEF FinitelyRegistered
  <2>3. Registered(p)' = Registered(p) \ {k}
    BY <1>a DEF RevokePasskey, Registered, Typed, PasskeysTyped
  <2>4. Registered(p)' # {}
    BY <2>2, <2>3, FS_RemoveElement, FS_EmptySet, FS_CardinalityType DEF RevokePasskey, Removable
  <2>5. \A q \in Profiles : q # p => Registered(q)' = Registered(q)
    BY <1>a DEF RevokePasskey, Registered, Typed, PasskeysTyped
  <2>6. \A q \in Profiles : State(q)' = State(q) /\ UNCHANGED <<profiles, tickets>>
    BY DEF RevokePasskey, State
  <2> QED
    BY <2>4, <2>5, <2>6 DEF ProtectionIsAPasskey, RevokePasskey
<1> QED
  BY <1>1, <1>2, <1>3, <1>4, <1>5, <1>6 DEF Typed

(* Signing in, and continuing with a code.                                 *)
LEMMA CreateSignInOptionsStep ==
  ASSUME AccessInv, CreateSignInOptions
  PROVE  AccessInv'
<1> USE AccessAssumption DEF AccessInv
<1>i. PICK t \in TicketIds : /\ tickets' = [tickets EXCEPT ![t] = Ticket("sign-in", NoProfile, NoEmail)]
                             /\ opened' = [opened EXCEPT ![t] = 0]
                             /\ \A d \in calls : d.ticket # t
  BY IssueEffect DEF CreateSignInOptions
<1>1. /\ ProfilesTyped' /\ PasskeysTyped' /\ SessionsTyped' /\ CallsTyped' /\ PagesTyped'
      /\ FinitelyRegistered' /\ Granted' /\ Recoverable'
  BY DEF CreateSignInOptions, Typed, ProfilesTyped, PasskeysTyped, SessionsTyped, CallsTyped,
       PagesTyped, FinitelyRegistered, Granted, Recoverable, State
<1>2. TicketsTyped'
  BY <1>i DEF CreateSignInOptions, Ticket, Typed, TicketsTyped, TicketRows, TicketKinds
<1>3. Held'
  BY <1>i DEF CreateSignInOptions, Ticket, Typed, TicketsTyped, PasskeysTyped, Held, SignInHolds,
       RecoveryHolds
<1>4. Unopened'
  BY <1>i DEF CreateSignInOptions, Ticket, Typed, TicketsTyped, Unopened, SingleUse
<1>5. DeletedStaysClosed'
  BY <1>i DEF CreateSignInOptions, Ticket, Typed, ProfilesTyped, PasskeysTyped, SessionsTyped,
       TicketsTyped, DeletedStaysClosed, State, Registered
<1>6. ProtectionIsAPasskey'
  BY <1>i DEF CreateSignInOptions, Ticket, Typed, ProfilesTyped, PasskeysTyped, TicketsTyped,
       ProtectionIsAPasskey, State, Registered
<1> QED
  BY <1>1, <1>2, <1>3, <1>4, <1>5, <1>6 DEF Typed

LEMMA SignInStep ==
  ASSUME AccessInv, NEW b \in Browsers, NEW t \in TicketIds, NEW k \in Keys, SignIn(b, t, k),
         Cardinality(calls) < MaxCalls
  PROVE  AccessInv'
<1> USE AccessAssumption DEF AccessInv
<1>h. passkeys[k] \in Profiles
  BY DEF SignIn, Typed, PasskeysTyped
<1>1. /\ ProfilesTyped' /\ PasskeysTyped' /\ SessionsTyped' /\ TicketsTyped' /\ PagesTyped'
      /\ FinitelyRegistered' /\ Granted' /\ Unopened' /\ ProtectionIsAPasskey'
  BY DEF SignIn, rows, Typed, ProfilesTyped, PasskeysTyped, SessionsTyped, TicketsTyped,
       PagesTyped, FinitelyRegistered, Granted, Unopened, SingleUse, ProtectionIsAPasskey, State,
       Registered
<1>2. CallsTyped'
  <2>1. Call("sign-in", t, k, passkeys[k], b, NoEmail) \in CallRows
    BY <1>h DEF Call, CallRows, TicketIds
  <2> QED
    BY <2>1, CallAdded DEF SignIn, Typed
<1>3. Held'
  BY <1>h DEF SignIn, Call, TicketLocked, KeyLocked, rows, Typed, TicketsTyped, PasskeysTyped,
       Held, SignInHolds, RecoveryHolds
<1>4. Recoverable'
  BY <1>h DEF SignIn, Call, TicketLocked, KeyLocked, rows, Typed, ProfilesTyped, Recoverable,
       State
<1>5. DeletedStaysClosed'
  BY <1>h DEF SignIn, Call, TicketLocked, KeyLocked, rows, Typed, ProfilesTyped, PasskeysTyped,
       SessionsTyped, TicketsTyped, DeletedStaysClosed, State, Registered
<1> QED
  BY <1>1, <1>2, <1>3, <1>4, <1>5 DEF Typed

LEMMA FinishSignInStep ==
  ASSUME AccessInv, NEW c \in calls, NEW s \in SessionIds, FinishSignIn(c, s)
  PROVE  AccessInv'
<1> USE AccessAssumption DEF AccessInv
<1>c. /\ c \in CallRows /\ c.kind \in {"sign-in", "start", "recover"}
      /\ c.profile \in Profiles /\ c.browser \in Browsers
  BY CallKinds
<1>h. SignInHolds(c) /\ State(c.profile) \in {"none", "anonymous", "protected"}
  BY <1>c DEF FinishSignIn, Held, DeletedStaysClosed, Typed, ProfilesTyped, ProfileRows, State
<1>1. ProfilesTyped' /\ PasskeysTyped' /\ FinitelyRegistered'
  BY DEF FinishSignIn, Typed, ProfilesTyped, PasskeysTyped, FinitelyRegistered
<1>2. SessionsTyped'
  BY <1>c, OpeningEffect DEF FinishSignIn, Typed, SessionsTyped
<1>3. TicketsTyped'
  BY <1>c, <1>h DEF FinishSignIn, Consume, NoTicket, Receive, Opening, FreeSession, Typed,
       TicketsTyped, TicketRows, TicketKinds, SignInHolds
<1>4. CallsTyped'
  BY CallRemoved DEF FinishSignIn, Typed
<1>5. PagesTyped'
  <2>1. Receive(c.browser, s, State(c.profile))
    BY DEF FinishSignIn
  <2> QED
    BY <1>c, <1>h, <2>1, ReceiveEffect
<1>6. Granted'
  <2>1. \A u \in SessionIds : u # s => sessions'[u] = sessions[u]
    BY <1>c, OpeningEffect DEF FinishSignIn, Typed, SessionsTyped
  <2>2. \A d \in Browsers : pages'[d].session \in {pages[d].session, s}
    BY <1>c DEF FinishSignIn, Receive, Typed, PagesTyped, PageRows
  <2>3. sessions'[s].profile \in Profiles
    BY <1>c, OpeningEffect DEF FinishSignIn, Typed, SessionsTyped
  <2> QED
    BY <2>1, <2>2, <2>3, GrantedKept
<1>7. Held'
  <2>1. calls' \subseteq calls /\ \A d \in calls' : d \in calls /\ d # c
    BY DEF FinishSignIn
  <2>2. \A d \in calls' : d.ticket # c.ticket
    BY <2>1, TicketsApart DEF FinishSignIn
  <2>3. \A t \in TicketIds : t # c.ticket => tickets'[t] = tickets[t]
    BY DEF FinishSignIn, Consume, Typed, TicketsTyped
  <2>4. UNCHANGED passkeys
    BY DEF FinishSignIn
  <2> QED
    BY <2>1, <2>2, <2>3, <2>4, HeldKept DEF Held, SignInHolds, RecoveryHolds
<1>8. Recoverable'
  BY <1>c, <1>h DEF FinishSignIn, Consume, NoTicket, Receive, Opening, FreeSession, Typed,
       ProfilesTyped, Recoverable, State
<1>9. Unopened'
  BY <1>c, <1>h DEF FinishSignIn, Consume, NoTicket, Receive, Opening, FreeSession, Typed,
       TicketsTyped, Unopened, SingleUse, SignInHolds
<1>10. DeletedStaysClosed'
  BY <1>c, <1>h DEF FinishSignIn, Consume, NoTicket, Receive, Opening, FreeSession, Typed,
       ProfilesTyped, PasskeysTyped, SessionsTyped, TicketsTyped, DeletedStaysClosed, State,
       Registered, SignInHolds
<1>11. ProtectionIsAPasskey'
  BY <1>c, <1>h DEF FinishSignIn, Consume, NoTicket, Receive, Opening, FreeSession, Typed,
       ProfilesTyped, PasskeysTyped, TicketsTyped, ProtectionIsAPasskey, State, Registered,
       SignInHolds
<1> QED
  BY <1>1, <1>2, <1>3, <1>4, <1>5, <1>6, <1>7, <1>8, <1>9, <1>10, <1>11 DEF Typed

LEMMA CreateHandoffStep ==
  ASSUME AccessInv, NEW b \in Browsers, CreateHandoff(b)
  PROVE  AccessInv'
<1> USE AccessAssumption DEF AccessInv
<1>a. /\ pages[b].session \in SessionIds /\ ProfileOf(b) \in Profiles
      /\ State(ProfileOf(b)) \in {"none", "anonymous", "protected"}
      /\ sessions[pages[b].session].usable
  BY ActiveBrowser DEF CreateHandoff
<1>i. PICK t \in TicketIds : /\ tickets' = [tickets EXCEPT ![t] = Ticket("handoff", ProfileOf(b), NoEmail)]
                             /\ opened' = [opened EXCEPT ![t] = 0]
                             /\ \A d \in calls : d.ticket # t
  BY IssueEffect DEF CreateHandoff
<1>1. /\ ProfilesTyped' /\ PasskeysTyped' /\ SessionsTyped' /\ CallsTyped' /\ PagesTyped'
      /\ FinitelyRegistered' /\ Granted' /\ Recoverable'
  BY DEF CreateHandoff, Typed, ProfilesTyped, PasskeysTyped, SessionsTyped, CallsTyped,
       PagesTyped, FinitelyRegistered, Granted, Recoverable, State
<1>2. TicketsTyped'
  BY <1>a, <1>i DEF CreateHandoff, Ticket, Typed, TicketsTyped, TicketRows, TicketKinds
<1>3. Held'
  BY <1>a, <1>i DEF CreateHandoff, Ticket, Typed, TicketsTyped, PasskeysTyped, Held, SignInHolds,
       RecoveryHolds
<1>4. Unopened'
  BY <1>a, <1>i DEF CreateHandoff, Ticket, Typed, TicketsTyped, Unopened, SingleUse
<1>5. DeletedStaysClosed'
  BY <1>a, <1>i DEF CreateHandoff, Ticket, Typed, ProfilesTyped, PasskeysTyped, SessionsTyped,
       TicketsTyped, DeletedStaysClosed, State, Registered
<1>6. ProtectionIsAPasskey'
  BY <1>a, <1>i DEF CreateHandoff, Ticket, Typed, ProfilesTyped, PasskeysTyped, TicketsTyped,
       ProtectionIsAPasskey, State, Registered
<1> QED
  BY <1>1, <1>2, <1>3, <1>4, <1>5, <1>6 DEF Typed

LEMMA RedeemHandoffStep ==
  ASSUME AccessInv, NEW b \in Browsers, NEW t \in TicketIds, NEW s \in SessionIds,
         RedeemHandoff(b, t, s)
  PROVE  AccessInv'
<1> USE AccessAssumption DEF AccessInv
<1>h. /\ tickets[t].profile \in Profiles
      /\ State(tickets[t].profile) \in {"none", "anonymous", "protected"}
  BY DEF RedeemHandoff, Typed, TicketsTyped, TicketRows, ProfilesTyped, ProfileRows, State
<1>1. ProfilesTyped' /\ PasskeysTyped' /\ CallsTyped' /\ FinitelyRegistered' /\ Recoverable'
  BY DEF RedeemHandoff, Typed, ProfilesTyped, PasskeysTyped, CallsTyped, FinitelyRegistered,
       Recoverable, State
<1>2. SessionsTyped'
  BY <1>h, OpeningEffect DEF RedeemHandoff, Typed, SessionsTyped
<1>3. TicketsTyped'
  BY <1>h DEF RedeemHandoff, Consume, NoTicket, Receive, Opening, FreeSession, Typed,
       TicketsTyped, TicketRows, TicketKinds
<1>4. PagesTyped'
  <2>1. Receive(b, s, State(tickets[t].profile))
    BY DEF RedeemHandoff
  <2> QED
    BY <1>h, <2>1, ReceiveEffect
<1>5. Granted'
  <2>1. \A u \in SessionIds : u # s => sessions'[u] = sessions[u]
    BY <1>h, OpeningEffect DEF RedeemHandoff, Typed, SessionsTyped
  <2>2. \A d \in Browsers : pages'[d].session \in {pages[d].session, s}
    BY <1>h DEF RedeemHandoff, Receive, Typed, PagesTyped, PageRows
  <2>3. sessions'[s].profile \in Profiles
    BY <1>h, OpeningEffect DEF RedeemHandoff, Typed, SessionsTyped
  <2> QED
    BY <2>1, <2>2, <2>3, GrantedKept
<1>6. Held'
  BY <1>h DEF RedeemHandoff, Consume, NoTicket, Receive, Opening, FreeSession, Typed,
       TicketsTyped, PasskeysTyped, Held, SignInHolds, RecoveryHolds
<1>7. Unopened'
  BY <1>h DEF RedeemHandoff, Consume, NoTicket, Receive, Opening, FreeSession, Typed,
       TicketsTyped, Unopened, SingleUse
<1>8. DeletedStaysClosed'
  BY <1>h DEF RedeemHandoff, Consume, NoTicket, Receive, Opening, FreeSession, Typed,
       ProfilesTyped, PasskeysTyped, SessionsTyped, TicketsTyped, DeletedStaysClosed, State,
       Registered
<1>9. ProtectionIsAPasskey'
  BY <1>h DEF RedeemHandoff, Consume, NoTicket, Receive, Opening, FreeSession, Typed,
       ProfilesTyped, PasskeysTyped, TicketsTyped, ProtectionIsAPasskey, State, Registered
<1> QED
  BY <1>1, <1>2, <1>3, <1>4, <1>5, <1>6, <1>7, <1>8, <1>9 DEF Typed

(* Recovery by email.                                                      *)
LEMMA RequestRecoveryEmailStep ==
  ASSUME AccessInv, NEW b \in Browsers, NEW e \in Emails, RequestRecoveryEmail(b, e)
  PROVE  AccessInv'
<1> USE AccessAssumption DEF AccessInv
<1>a. /\ pages[b].session \in SessionIds /\ ProfileOf(b) \in Profiles
      /\ State(ProfileOf(b)) \in {"none", "anonymous", "protected"}
      /\ sessions[pages[b].session].usable
  BY ActiveBrowser DEF RequestRecoveryEmail
<1>i. PICK t \in TicketIds : /\ tickets' = [tickets EXCEPT ![t] = Ticket("verify-email", ProfileOf(b), e)]
                             /\ opened' = [opened EXCEPT ![t] = 0]
                             /\ \A d \in calls : d.ticket # t
  BY IssueEffect DEF RequestRecoveryEmail
<1>1. /\ ProfilesTyped' /\ PasskeysTyped' /\ SessionsTyped' /\ CallsTyped' /\ PagesTyped'
      /\ FinitelyRegistered' /\ Granted' /\ Recoverable'
  BY DEF RequestRecoveryEmail, Typed, ProfilesTyped, PasskeysTyped, SessionsTyped, CallsTyped,
       PagesTyped, FinitelyRegistered, Granted, Recoverable, State
<1>2. TicketsTyped'
  BY <1>a, <1>i DEF RequestRecoveryEmail, Ticket, Typed, TicketsTyped, TicketRows, TicketKinds
<1>3. Held'
  BY <1>a, <1>i DEF RequestRecoveryEmail, Ticket, Typed, TicketsTyped, PasskeysTyped, Held,
       SignInHolds, RecoveryHolds
<1>4. Unopened'
  BY <1>a, <1>i DEF RequestRecoveryEmail, Ticket, Typed, TicketsTyped, Unopened, SingleUse
<1>5. DeletedStaysClosed'
  BY <1>a, <1>i DEF RequestRecoveryEmail, Ticket, Typed, ProfilesTyped, PasskeysTyped,
       SessionsTyped, TicketsTyped, DeletedStaysClosed, State, Registered
<1>6. ProtectionIsAPasskey'
  BY <1>a, <1>i DEF RequestRecoveryEmail, Ticket, Typed, ProfilesTyped, PasskeysTyped,
       TicketsTyped, ProtectionIsAPasskey, State, Registered
<1> QED
  BY <1>1, <1>2, <1>3, <1>4, <1>5, <1>6 DEF Typed

LEMMA VerifyRecoveryEmailStep ==
  ASSUME AccessInv, NEW t \in TicketIds, VerifyRecoveryEmail(t)
  PROVE  AccessInv'
<1> USE AccessAssumption DEF AccessInv
<1>h. tickets[t].profile \in Profiles /\ tickets[t].email \in Emails
  BY DEF VerifyRecoveryEmail, Typed, TicketsTyped, TicketRows
<1>1. /\ PasskeysTyped' /\ SessionsTyped' /\ CallsTyped' /\ PagesTyped' /\ FinitelyRegistered'
      /\ Granted'
  BY DEF VerifyRecoveryEmail, Typed, PasskeysTyped, SessionsTyped, CallsTyped, PagesTyped,
       FinitelyRegistered, Granted
<1>2. ProfilesTyped'
  BY <1>h DEF VerifyRecoveryEmail, Consume, NoTicket, Typed, ProfilesTyped, ProfileRows
<1>3. TicketsTyped'
  BY <1>h DEF VerifyRecoveryEmail, Consume, NoTicket, Typed, TicketsTyped, TicketRows, TicketKinds
<1>4. Held'
  BY <1>h DEF VerifyRecoveryEmail, Consume, NoTicket, Typed, TicketsTyped, PasskeysTyped, Held,
       SignInHolds, RecoveryHolds
<1>5. Recoverable'
  BY <1>h DEF VerifyRecoveryEmail, Consume, NoTicket, Typed, ProfilesTyped, Recoverable, State
<1>6. Unopened'
  BY <1>h DEF VerifyRecoveryEmail, Consume, NoTicket, Typed, TicketsTyped, Unopened, SingleUse
<1>7. DeletedStaysClosed'
  BY <1>h DEF VerifyRecoveryEmail, Consume, NoTicket, Typed, ProfilesTyped, PasskeysTyped,
       SessionsTyped, TicketsTyped, DeletedStaysClosed, State, Registered
<1>8. ProtectionIsAPasskey'
  BY <1>h DEF VerifyRecoveryEmail, Consume, NoTicket, Typed, ProfilesTyped, PasskeysTyped,
       TicketsTyped, ProtectionIsAPasskey, State, Registered
<1> QED
  BY <1>1, <1>2, <1>3, <1>4, <1>5, <1>6, <1>7, <1>8 DEF Typed

LEMMA StartRecoveryStep ==
  ASSUME AccessInv, NEW b \in Browsers, NEW e \in Emails, NEW p \in Profiles, StartRecovery(b,
         e, p), Cardinality(calls) < MaxCalls
  PROVE  AccessInv'
<1> USE AccessAssumption DEF AccessInv
<1>h. State(p) = "protected"
  BY DEF StartRecovery, ProtectionIsAPasskey
<1>1. /\ ProfilesTyped' /\ PasskeysTyped' /\ SessionsTyped' /\ TicketsTyped' /\ PagesTyped'
      /\ FinitelyRegistered' /\ Granted' /\ Unopened' /\ ProtectionIsAPasskey'
  BY DEF StartRecovery, rows, Typed, ProfilesTyped, PasskeysTyped, SessionsTyped, TicketsTyped,
       PagesTyped, FinitelyRegistered, Granted, Unopened, SingleUse, ProtectionIsAPasskey, State,
       Registered
<1>2. CallsTyped'
  <2>1. Call("start", 0, NoKey, p, b, e) \in CallRows
    BY <1>h DEF Call, CallRows, TicketIds
  <2> QED
    BY <2>1, CallAdded DEF StartRecovery, Typed
<1>3. Held'
  BY <1>h DEF StartRecovery, Call, rows, Typed, TicketsTyped, PasskeysTyped, Held, SignInHolds,
       RecoveryHolds
<1>4. Recoverable'
  <2>1. \A d \in calls' : d \in calls \/ d.profile = p
    BY DEF StartRecovery, Call
  <2>2. UNCHANGED profiles
    BY DEF StartRecovery, rows
  <2> QED
    BY <1>h, <2>1, <2>2 DEF Recoverable, State
<1>5. DeletedStaysClosed'
  BY <1>h DEF StartRecovery, Call, rows, Typed, ProfilesTyped, PasskeysTyped, SessionsTyped,
       TicketsTyped, DeletedStaysClosed, State, Registered
<1> QED
  BY <1>1, <1>2, <1>3, <1>4, <1>5 DEF Typed

LEMMA FinishStartStep ==
  ASSUME AccessInv, NEW c \in calls, FinishStart(c)
  PROVE  AccessInv'
<1> USE AccessAssumption DEF AccessInv
<1>c. /\ c \in CallRows /\ c.kind \in {"sign-in", "start", "recover"}
      /\ c.profile \in Profiles /\ c.browser \in Browsers
  BY CallKinds
<1>h. c.email \in Emails /\ State(c.profile) \in {"protected", "tombstoned"}
  BY <1>c DEF FinishStart, Held, Recoverable
<1>i. PICK t \in TicketIds : /\ tickets' = [tickets EXCEPT ![t] = Ticket("recover", c.profile, c.email)]
                             /\ opened' = [opened EXCEPT ![t] = 0]
                             /\ \A d \in calls : d.ticket # t
  BY IssueEffect DEF FinishStart
<1>1. /\ ProfilesTyped' /\ PasskeysTyped' /\ SessionsTyped' /\ PagesTyped'
      /\ FinitelyRegistered' /\ Granted'
  BY DEF FinishStart, Typed, ProfilesTyped, PasskeysTyped, SessionsTyped, PagesTyped,
       FinitelyRegistered, Granted
<1>2. TicketsTyped'
  BY <1>c, <1>h, <1>i DEF FinishStart, Ticket, Typed, TicketsTyped, TicketRows, TicketKinds
<1>3. CallsTyped'
  BY CallRemoved DEF FinishStart, Typed
<1>4. Held'
  BY <1>c, <1>h, <1>i DEF FinishStart, Ticket, Typed, TicketsTyped, PasskeysTyped, Held,
       SignInHolds, RecoveryHolds
<1>5. Recoverable'
  BY <1>c, <1>h, <1>i DEF FinishStart, Ticket, Typed, ProfilesTyped, Recoverable, State
<1>6. Unopened'
  BY <1>c, <1>h, <1>i DEF FinishStart, Ticket, Typed, TicketsTyped, Unopened, SingleUse
<1>7. DeletedStaysClosed'
  BY <1>c, <1>h, <1>i DEF FinishStart, Ticket, Typed, ProfilesTyped, PasskeysTyped, SessionsTyped,
       TicketsTyped, DeletedStaysClosed, State, Registered
<1>8. ProtectionIsAPasskey'
  BY <1>c, <1>h, <1>i DEF FinishStart, Ticket, Typed, ProfilesTyped, PasskeysTyped, TicketsTyped,
       ProtectionIsAPasskey, State, Registered
<1> QED
  BY <1>1, <1>2, <1>3, <1>4, <1>5, <1>6, <1>7, <1>8 DEF Typed

LEMMA CompleteRecoveryStep ==
  ASSUME AccessInv, NEW b \in Browsers, NEW t \in TicketIds, NEW k \in Keys, CompleteRecovery(b,
         t, k), Cardinality(calls) < MaxCalls
  PROVE  AccessInv'
<1> USE AccessAssumption DEF AccessInv
<1>h. tickets[t].profile \in Profiles /\ State(tickets[t].profile) = "protected"
  BY DEF CompleteRecovery, Typed, TicketsTyped, TicketRows, ProtectionIsAPasskey
<1>1. /\ ProfilesTyped' /\ PasskeysTyped' /\ SessionsTyped' /\ TicketsTyped' /\ PagesTyped'
      /\ FinitelyRegistered' /\ Granted' /\ Unopened' /\ ProtectionIsAPasskey'
  BY DEF CompleteRecovery, rows, Typed, ProfilesTyped, PasskeysTyped, SessionsTyped, TicketsTyped,
       PagesTyped, FinitelyRegistered, Granted, Unopened, SingleUse, ProtectionIsAPasskey, State,
       Registered
<1>2. CallsTyped'
  <2>1. Call("recover", t, k, tickets[t].profile, b, NoEmail) \in CallRows
    BY <1>h DEF Call, CallRows, TicketIds
  <2> QED
    BY <2>1, CallAdded DEF CompleteRecovery, Typed
<1>3. Held'
  BY <1>h DEF CompleteRecovery, Call, TicketLocked, rows, Typed, TicketsTyped, PasskeysTyped,
       Held, SignInHolds, RecoveryHolds
<1>4. Recoverable'
  <2>1. \A d \in calls' : d \in calls \/ d.profile = tickets[t].profile
    BY DEF CompleteRecovery, Call
  <2>2. UNCHANGED profiles
    BY DEF CompleteRecovery, rows
  <2> QED
    BY <1>h, <2>1, <2>2 DEF Recoverable, State
<1>5. DeletedStaysClosed'
  BY <1>h DEF CompleteRecovery, Call, TicketLocked, rows, Typed, ProfilesTyped, PasskeysTyped,
       SessionsTyped, TicketsTyped, DeletedStaysClosed, State, Registered
<1> QED
  BY <1>1, <1>2, <1>3, <1>4, <1>5 DEF Typed

LEMMA FinishRecoveryStep ==
  ASSUME AccessInv, NEW c \in calls, NEW s \in SessionIds, FinishRecovery(c, s)
  PROVE  AccessInv'
<1> USE AccessAssumption DEF AccessInv
<1>c. /\ c \in CallRows /\ c.kind \in {"sign-in", "start", "recover"}
      /\ c.profile \in Profiles /\ c.browser \in Browsers
  BY CallKinds
<1>h. RecoveryHolds(c) /\ State(c.profile) = "protected"
  BY <1>c DEF FinishRecovery, Held, DeletedStaysClosed, Recoverable
<1>1. ProfilesTyped'
  BY DEF FinishRecovery, Typed, ProfilesTyped
<1>2. PasskeysTyped'
  BY <1>c, <1>h DEF FinishRecovery, Consume, NoTicket, Receive, Opening, FreeSession, Ended,
       Typed, PasskeysTyped, RecoveryHolds
<1>3. SessionsTyped'
  BY <1>c, OpeningEffect, EndedEffect DEF FinishRecovery, Typed
<1>4. TicketsTyped'
  BY <1>h DEF FinishRecovery, Consume, NoTicket, RecoveryHolds, Typed, TicketsTyped, TicketRows
<1>5. CallsTyped'
  BY CallRemoved DEF FinishRecovery, Typed
<1>6. PagesTyped'
  <2>1. Receive(c.browser, s, State(c.profile))
    BY DEF FinishRecovery
  <2> QED
    BY <1>c, <1>h, <2>1, ReceiveEffect
<1>7. FinitelyRegistered'
  BY <1>h, OneMoreRegistered DEF FinishRecovery, Typed, RecoveryHolds
<1>8. Granted'
  <2>1. \A u \in SessionIds : u # s => sessions'[u].profile = sessions[u].profile
    BY <1>c, OpeningEffect, EndedEffect DEF FinishRecovery, Typed
  <2>2. \A d \in Browsers : pages'[d].session \in {pages[d].session, s}
    BY <1>c DEF FinishRecovery, Receive, Typed, PagesTyped, PageRows
  <2>3. sessions'[s].profile \in Profiles
    BY <1>c, OpeningEffect, EndedEffect DEF FinishRecovery, Typed
  <2> QED
    BY <2>1, <2>2, <2>3, GrantedKept
<1>9. Held'
  <2>1. calls' \subseteq calls /\ \A d \in calls' : d \in calls /\ d # c
    BY DEF FinishRecovery
  <2>2. \A d \in calls' : d.ticket # c.ticket
    BY <2>1, TicketsApart DEF FinishRecovery
  <2>3. \A t \in TicketIds : t # c.ticket => tickets'[t] = tickets[t]
    BY DEF FinishRecovery, Consume, Typed, TicketsTyped
  <2>4. \A d \in calls' : d.kind = "sign-in" => d.key # c.key
    BY <2>1, <1>c DEF FinishRecovery, Held, SignInHolds, Typed, CallsTyped, CallRows
  <2>5. \A k \in Keys : k # c.key => passkeys'[k] = passkeys[k]
    BY DEF FinishRecovery, Typed, PasskeysTyped
  <2> QED
    BY <2>1, <2>2, <2>3, <2>4, <2>5, HeldKept DEF Held, SignInHolds, RecoveryHolds
<1>10. Recoverable'
  BY <1>c, <1>h DEF FinishRecovery, Consume, NoTicket, Receive, Opening, FreeSession, Ended,
       Typed, ProfilesTyped, Recoverable, State
<1>11. Unopened'
  BY <1>h DEF FinishRecovery, Consume, NoTicket, RecoveryHolds, Typed, TicketsTyped, Unopened,
       SingleUse
<1>12. DeletedStaysClosed'
  <2>1. \A q \in Profiles : q # c.profile => Registered(q)' = Registered(q)
    BY <1>c, <1>h, AccessAssumption DEF FinishRecovery, Registered, RecoveryHolds, Typed,
         PasskeysTyped
  <2>2. \A q \in Profiles : State(q)' = State(q)
    BY DEF FinishRecovery, State
  <2>3. \A u \in SessionIds : \/ u = s /\ sessions'[u].profile = c.profile
                              \/ sessions'[u].profile = sessions[u].profile /\ (sessions'[u].usable => sessions[u].usable)
    <3>1. /\ Ended(c.profile) \in [SessionIds -> SessionRows]
          /\ \A u \in SessionIds : /\ Ended(c.profile)[u].recent => Ended(c.profile)[u].usable
                                   /\ Ended(c.profile)[u].profile = sessions[u].profile
                                   /\ Ended(c.profile)[u].usable => sessions[u].usable
      BY EndedEffect DEF Typed
    <3>2. /\ sessions'[s].profile = c.profile
          /\ \A u \in SessionIds : u # s => sessions'[u] = Ended(c.profile)[u]
      BY <1>c, <3>1 DEF FinishRecovery, Opening, SessionRows
    <3> QED
      BY <3>1, <3>2 DEF Typed, SessionsTyped, SessionRows
  <2>4. \A t \in TicketIds : tickets'[t] \in {NoTicket, tickets[t]}
    BY <1>h DEF FinishRecovery, Consume, RecoveryHolds, Typed, TicketsTyped
  <2>5. NoTicket.profile \notin Profiles /\ calls' \subseteq calls
    BY AccessAssumption DEF NoTicket, FinishRecovery
  <2> QED
    BY <1>h, <2>1, <2>2, <2>3, <2>4, <2>5 DEF DeletedStaysClosed
<1>13. ProtectionIsAPasskey'
  <2>1. \A q \in Profiles : Registered(q)' = IF q = c.profile THEN Registered(q) \union {c.key} ELSE Registered(q)
    BY <1>c, <1>h, AccessAssumption DEF FinishRecovery, Registered, RecoveryHolds, Typed,
         PasskeysTyped
  <2>2. UNCHANGED profiles /\ \A q \in Profiles : State(q)' = State(q)
    BY DEF FinishRecovery, State
  <2>3. \A t \in TicketIds : tickets'[t] \in {NoTicket, tickets[t]}
    BY <1>h DEF FinishRecovery, Consume, RecoveryHolds, Typed, TicketsTyped
  <2>4. NoTicket.profile \notin Profiles
    BY AccessAssumption DEF NoTicket
  <2> QED
    BY <1>h, <2>1, <2>2, <2>3, <2>4 DEF ProtectionIsAPasskey
<1> QED
  BY <1>1, <1>2, <1>3, <1>4, <1>5, <1>6, <1>7, <1>8, <1>9, <1>10, <1>11, <1>12, <1>13 DEF Typed

LEMMA RollbackStep ==
  ASSUME AccessInv, NEW c \in calls, Rollback(c)
  PROVE  AccessInv'
<1> USE AccessAssumption DEF AccessInv
<1>c. /\ c \in CallRows /\ c.kind \in {"sign-in", "start", "recover"}
      /\ c.profile \in Profiles /\ c.browser \in Browsers
  BY CallKinds
<1>1. /\ ProfilesTyped' /\ PasskeysTyped' /\ SessionsTyped' /\ TicketsTyped'
      /\ FinitelyRegistered' /\ Unopened' /\ ProtectionIsAPasskey'
  BY DEF Rollback, rows, Typed, ProfilesTyped, PasskeysTyped, SessionsTyped, TicketsTyped,
       FinitelyRegistered, Unopened, SingleUse, ProtectionIsAPasskey, State, Registered
<1>2. CallsTyped'
  BY CallRemoved DEF Rollback, Typed
<1>3. PagesTyped'
  BY <1>c DEF Rollback, rows, Typed, PagesTyped, PageRows
<1>4. Granted'
  <2>1. UNCHANGED sessions /\ \A d \in Browsers : pages'[d].session = pages[d].session
    BY DEF Rollback, rows, Typed, PagesTyped, PageRows
  <2> QED
    BY <2>1, GrantedKept
<1>5. Held'
  BY <1>c DEF Rollback, rows, Typed, TicketsTyped, PasskeysTyped, Held, SignInHolds, RecoveryHolds
<1>6. Recoverable'
  BY <1>c DEF Rollback, rows, Typed, ProfilesTyped, Recoverable, State
<1>7. DeletedStaysClosed'
  BY <1>c DEF Rollback, rows, Typed, ProfilesTyped, PasskeysTyped, SessionsTyped, TicketsTyped,
       DeletedStaysClosed, State, Registered
<1> QED
  BY <1>1, <1>2, <1>3, <1>4, <1>5, <1>6, <1>7 DEF Typed

(* Deletion: the only calls of the profile that can be in progress are     *)
(* recovery starts, as it waits for the rows that the other kinds hold.    *)
LEMMA DeletionStep ==
  ASSUME AccessInv, NEW p \in Profiles, Tombstone(p), UNCHANGED <<calls, opened>>, pages' \in
         [Browsers -> PageRows],
         \A b \in Browsers : pages'[b].session = pages[b].session
  PROVE  AccessInv'
<1> USE AccessAssumption DEF AccessInv
<1>h. \A c \in calls : c.profile = p => c.kind = "start"
  <2>1. ASSUME NEW c \in calls, c.profile = p, c.kind = "sign-in"
        PROVE  FALSE
    BY <2>1 DEF Held, SignInHolds, Tombstone, Unlocked, KeyLocked, Registered
  <2>2. ASSUME NEW c \in calls, c.profile = p, c.kind = "recover"
        PROVE  FALSE
    BY <2>2 DEF Held, RecoveryHolds, Tombstone, Unlocked, TicketLocked
  <2> QED
    BY <2>1, <2>2, CallKinds
<1>1. CallsTyped'
  BY DEF Typed, CallsTyped
<1>2. ProfilesTyped'
  BY <1>h DEF Tombstone, Unlocked, Ended, NoTicket, KeyLocked, TicketLocked, Typed, ProfilesTyped,
       ProfileRows
<1>3. PasskeysTyped'
  BY <1>h DEF Tombstone, Unlocked, Ended, NoTicket, KeyLocked, TicketLocked, Typed, PasskeysTyped
<1>4. SessionsTyped'
  BY <1>h DEF Tombstone, Unlocked, Ended, NoTicket, KeyLocked, TicketLocked, Typed, SessionsTyped,
       SessionRows
<1>5. TicketsTyped'
  <2>1. NoTicket \in TicketRows
    BY DEF NoTicket, TicketRows
  <2>2. tickets' \in [TicketIds -> TicketRows]
    BY <2>1 DEF Tombstone, Typed, TicketsTyped
  <2> QED
    BY <2>2 DEF Tombstone, NoTicket, Typed, TicketsTyped
<1>6. PagesTyped'
  BY <1>h DEF Tombstone, Unlocked, Ended, NoTicket, KeyLocked, TicketLocked, Typed, PagesTyped,
       PageRows
<1>7. FinitelyRegistered'
  BY FewerRegistered DEF Tombstone, Typed, PasskeysTyped
<1>8. Granted'
  <2>1. \A s \in SessionIds : sessions'[s].profile = sessions[s].profile
    BY EndedEffect DEF Tombstone, Typed
  <2> QED
    BY <2>1, GrantedKept
<1>9. Held'
  <2>1. \A c \in calls : c.kind = "sign-in" => passkeys'[c.key] = passkeys[c.key]
    BY <1>h DEF Tombstone, Held, SignInHolds
  <2>2. \A c \in calls : c.kind \in {"sign-in", "recover"} => tickets'[c.ticket] = tickets[c.ticket]
    BY <1>h DEF Tombstone, Held, SignInHolds, RecoveryHolds, Typed, TicketsTyped
  <2> QED
    BY <2>1, <2>2, HeldKept
<1>10. Recoverable'
  <2>1. \A q \in Profiles : State(q)' = IF q = p THEN "tombstoned" ELSE State(q)
    BY DEF Tombstone, State, Typed, ProfilesTyped, ProfileRows
  <2> QED
    BY <2>1, CallKinds DEF Recoverable
<1>11. Unopened'
  BY <1>h DEF Tombstone, Unlocked, Ended, NoTicket, KeyLocked, TicketLocked, Typed, TicketsTyped,
       Unopened, SingleUse
<1>12. DeletedStaysClosed'
  <2>1. \A q \in Profiles : State(q)' = IF q = p THEN "tombstoned" ELSE State(q)
    BY DEF Tombstone, State, Typed, ProfilesTyped, ProfileRows
  <2>2. \A q \in Profiles : Registered(q)' = IF q = p THEN {} ELSE Registered(q)
    BY AccessAssumption DEF Tombstone, Registered
  <2>3. \A s \in SessionIds : /\ sessions'[s].profile = sessions[s].profile
                              /\ sessions'[s].profile = p => ~sessions'[s].usable
                              /\ sessions'[s].usable => sessions[s].usable
    BY EndedEffect DEF Tombstone, Typed
  <2>4. \A t \in TicketIds : tickets'[t].profile \in Profiles => tickets'[t] = tickets[t] /\ tickets[t].profile # p
    BY AccessAssumption DEF Tombstone, NoTicket, Typed, TicketsTyped
  <2> SUFFICES ASSUME NEW q \in Profiles, State(q)' = "tombstoned"
               PROVE  /\ Registered(q)' = {}
                      /\ \A s \in SessionIds : sessions'[s].profile = q => ~sessions'[s].usable
                      /\ \A t \in TicketIds : tickets'[t].profile = q => tickets'[t].kind = "recover"
                      /\ \A c \in calls : c.profile = q => c.kind = "start"
    BY DEF DeletedStaysClosed
  <2>5. CASE q = p
    BY <1>h, <2>2, <2>3, <2>4, <2>5, <1>3 DEF SessionsTyped, SessionRows
  <2>6. CASE q # p
    BY <2>1, <2>2, <2>3, <2>4, <2>6, <1>3 DEF DeletedStaysClosed, Typed, SessionsTyped,
         SessionRows
  <2> QED
    BY <2>5, <2>6
<1>13. ProtectionIsAPasskey'
  <2>1. \A q \in Profiles : /\ State(q)' = IF q = p THEN "tombstoned" ELSE State(q)
                            /\ profiles'[q].email = profiles[q].email
    BY DEF Tombstone, State, Typed, ProfilesTyped, ProfileRows
  <2>2. \A q \in Profiles : Registered(q)' = IF q = p THEN {} ELSE Registered(q)
    BY AccessAssumption DEF Tombstone, Registered
  <2>3. \A t \in TicketIds : tickets'[t].profile \in Profiles => tickets'[t] = tickets[t]
    BY AccessAssumption DEF Tombstone, NoTicket, Typed, TicketsTyped
  <2> QED
    BY <2>1, <2>2, <2>3 DEF ProtectionIsAPasskey
<1> QED
  BY <1>1, <1>2, <1>3, <1>4, <1>5, <1>6, <1>7, <1>8, <1>9, <1>10, <1>11, <1>12, <1>13 DEF Typed

LEMMA DroppedStep ==
  ASSUME AccessInv, NEW b \in Browsers, Dropped(b)
  PROVE  AccessInv'
<1> USE AccessAssumption DEF AccessInv
<1>1. /\ ProfilesTyped' /\ PasskeysTyped' /\ SessionsTyped' /\ TicketsTyped' /\ CallsTyped'
      /\ FinitelyRegistered' /\ Held' /\ Recoverable' /\ Unopened' /\ DeletedStaysClosed'
      /\ ProtectionIsAPasskey'
  BY DEF Dropped, rows, Typed, ProfilesTyped, PasskeysTyped, SessionsTyped, TicketsTyped,
       CallsTyped, FinitelyRegistered, Held, SignInHolds, RecoveryHolds, Recoverable, State,
       Unopened, SingleUse, DeletedStaysClosed, Registered, ProtectionIsAPasskey
<1>2. PagesTyped'
  BY DEF Dropped, rows, Typed, PagesTyped, PageRows
<1>3. Granted'
  BY DEF Dropped, rows, Typed, PagesTyped, SessionsTyped, Granted
<1> QED
  BY <1>1, <1>2, <1>3 DEF Typed

LEMMA ConfirmDeletionStep ==
  ASSUME AccessInv, NEW b \in Browsers, ConfirmDeletion(b)
  PROVE  AccessInv'
<1> USE AccessAssumption DEF AccessInv
<1>a. /\ pages[b].session \in SessionIds /\ ProfileOf(b) \in Profiles
      /\ State(ProfileOf(b)) \in {"none", "anonymous", "protected"}
      /\ sessions[pages[b].session].usable
  BY ActiveBrowser DEF ConfirmDeletion
<1>1. /\ ProfilesTyped' /\ PasskeysTyped' /\ SessionsTyped' /\ TicketsTyped' /\ CallsTyped'
      /\ FinitelyRegistered' /\ Held' /\ Recoverable' /\ Unopened' /\ DeletedStaysClosed'
      /\ ProtectionIsAPasskey'
  BY DEF ConfirmDeletion, rows, Typed, ProfilesTyped, PasskeysTyped, SessionsTyped, TicketsTyped,
       CallsTyped, FinitelyRegistered, Held, SignInHolds, RecoveryHolds, Recoverable, State,
       Unopened, SingleUse, DeletedStaysClosed, Registered, ProtectionIsAPasskey
<1>2. PagesTyped'
  BY <1>a DEF ConfirmDeletion, rows, Typed, PagesTyped, PageRows
<1>3. Granted'
  BY <1>a DEF ConfirmDeletion, rows, Typed, PagesTyped, SessionsTyped, Granted
<1> QED
  BY <1>1, <1>2, <1>3 DEF Typed

LEMMA ReloadStep ==
  ASSUME AccessInv, NEW b \in Browsers, Reload(b)
  PROVE  AccessInv'
<1> USE AccessAssumption DEF AccessInv
<1>1. /\ ProfilesTyped' /\ PasskeysTyped' /\ SessionsTyped' /\ TicketsTyped' /\ CallsTyped'
      /\ FinitelyRegistered' /\ Held' /\ Recoverable' /\ Unopened' /\ DeletedStaysClosed'
      /\ ProtectionIsAPasskey'
  BY DEF Reload, rows, Typed, ProfilesTyped, PasskeysTyped, SessionsTyped, TicketsTyped,
       CallsTyped, FinitelyRegistered, Held, SignInHolds, RecoveryHolds, Recoverable, State,
       Unopened, SingleUse, DeletedStaysClosed, Registered, ProtectionIsAPasskey
<1>2. PagesTyped'
  BY DEF Reload, rows, Page, Typed, PagesTyped, PageRows
<1>3. Granted'
  BY DEF Reload, rows, Page, Typed, PagesTyped, SessionsTyped, Granted
<1> QED
  BY <1>1, <1>2, <1>3 DEF Typed

LEMMA ReauthenticatedStep ==
  ASSUME AccessInv, NEW c \in calls, NEW s \in SessionIds, Reauthenticated(c, s)
  PROVE  AccessInv'
<1> USE AccessAssumption DEF AccessInv
<1>c. /\ c \in CallRows /\ c.kind \in {"sign-in", "start", "recover"}
      /\ c.profile \in Profiles /\ c.browser \in Browsers
  BY CallKinds
<1>h. SignInHolds(c) /\ State(c.profile) \in {"none", "anonymous", "protected"}
  BY <1>c DEF Reauthenticated, Held, DeletedStaysClosed, Typed, ProfilesTyped, ProfileRows, State
<1>1. ProfilesTyped' /\ PasskeysTyped' /\ FinitelyRegistered'
  BY DEF Reauthenticated, Typed, ProfilesTyped, PasskeysTyped, FinitelyRegistered
<1>2. SessionsTyped'
  BY <1>c, OpeningEffect DEF Reauthenticated, Typed, SessionsTyped
<1>3. TicketsTyped'
  BY <1>c, <1>h DEF Reauthenticated, Consume, NoTicket, Opening, FreeSession, Typed, TicketsTyped,
       TicketRows, TicketKinds, SignInHolds
<1>4. CallsTyped'
  BY CallRemoved DEF Reauthenticated, Typed
<1>5. PagesTyped'
  BY <1>c, <1>h DEF Reauthenticated, Consume, NoTicket, Opening, FreeSession, Typed, PagesTyped,
       PageRows, SignInHolds
<1>6. Granted'
  <2>1. \A u \in SessionIds : u # s => sessions'[u] = sessions[u]
    BY <1>c, OpeningEffect DEF Reauthenticated, Typed, SessionsTyped
  <2>2. \A d \in Browsers : pages'[d].session \in {pages[d].session, s}
    BY <1>c DEF Reauthenticated, Typed, PagesTyped, PageRows
  <2>3. sessions'[s].profile \in Profiles
    BY <1>c, OpeningEffect DEF Reauthenticated, Typed, SessionsTyped
  <2> QED
    BY <2>1, <2>2, <2>3, GrantedKept
<1>7. Held'
  <2>1. calls' \subseteq calls /\ \A d \in calls' : d \in calls /\ d # c
    BY DEF Reauthenticated
  <2>2. \A d \in calls' : d.ticket # c.ticket
    BY <2>1, TicketsApart DEF Reauthenticated
  <2>3. \A t \in TicketIds : t # c.ticket => tickets'[t] = tickets[t]
    BY DEF Reauthenticated, Consume, Typed, TicketsTyped
  <2>4. UNCHANGED passkeys
    BY DEF Reauthenticated
  <2> QED
    BY <2>1, <2>2, <2>3, <2>4, HeldKept DEF Held, SignInHolds, RecoveryHolds
<1>8. Recoverable'
  BY <1>c, <1>h DEF Reauthenticated, Consume, NoTicket, Opening, FreeSession, Typed,
       ProfilesTyped, Recoverable, State
<1>9. Unopened'
  BY <1>c, <1>h DEF Reauthenticated, Consume, NoTicket, Opening, FreeSession, Typed, TicketsTyped,
       Unopened, SingleUse, SignInHolds
<1>10. DeletedStaysClosed'
  BY <1>c, <1>h DEF Reauthenticated, Consume, NoTicket, Opening, FreeSession, Typed,
       ProfilesTyped, PasskeysTyped, SessionsTyped, TicketsTyped, DeletedStaysClosed, State,
       Registered, SignInHolds
<1>11. ProtectionIsAPasskey'
  BY <1>c, <1>h DEF Reauthenticated, Consume, NoTicket, Opening, FreeSession, Typed,
       ProfilesTyped, PasskeysTyped, TicketsTyped, ProtectionIsAPasskey, State, Registered,
       SignInHolds
<1> QED
  BY <1>1, <1>2, <1>3, <1>4, <1>5, <1>6, <1>7, <1>8, <1>9, <1>10, <1>11 DEF Typed

(* Time passes: sessions and tickets that no transaction holds run out.    *)
LEMMA LapseStep ==
  ASSUME AccessInv, Lapse
  PROVE  AccessInv'
<1> USE AccessAssumption DEF AccessInv
<1>1. UNCHANGED <<profiles, passkeys, calls, pages, opened>>
  BY DEF Lapse
<1>2. /\ ProfilesTyped' /\ PasskeysTyped' /\ CallsTyped' /\ PagesTyped' /\ FinitelyRegistered'
      /\ Recoverable'
  BY <1>1 DEF Typed, ProfilesTyped, PasskeysTyped, CallsTyped, PagesTyped, FinitelyRegistered,
       Recoverable, State
<1>3. ASSUME NEW s \in SessionIds, sessions[s].usable, UNCHANGED tickets,
             NEW usable \in {FALSE, sessions[s].recent},
             sessions' = [sessions EXCEPT ![s].usable = usable, ![s].recent = FALSE]
      PROVE  AccessInv'
  <2>1. /\ SessionsTyped'
        /\ \A u \in SessionIds : /\ sessions'[u].profile = sessions[u].profile
                                 /\ sessions'[u].usable => sessions[u].usable
    BY <1>3 DEF Typed, SessionsTyped, SessionRows
  <2>2. Granted'
    BY <1>1, <2>1, GrantedKept DEF Granted, Typed, PagesTyped, PageRows, SessionIds
  <2>3. TicketsTyped' /\ Held' /\ Unopened' /\ ProtectionIsAPasskey'
    BY <1>1, <1>3 DEF Typed, TicketsTyped, Held, SignInHolds, RecoveryHolds, Unopened, SingleUse,
                      ProtectionIsAPasskey, State, Registered
  <2>4. DeletedStaysClosed'
    BY <1>1, <2>1, UNCHANGED tickets DEF DeletedStaysClosed, State, Registered
  <2> QED
    BY <1>2, <2>1, <2>2, <2>3, <2>4 DEF Typed
<1>4. ASSUME NEW t \in TicketIds, ~TicketLocked(t), UNCHANGED sessions,
             tickets' = [tickets EXCEPT ![t] = NoTicket]
      PROVE  AccessInv'
  <2>1. NoTicket \in TicketRows /\ NoTicket.profile = NoProfile /\ NoTicket.kind = "none" /\ NoTicket.email = NoEmail
    BY DEF NoTicket, TicketRows
  <2>2. \A u \in TicketIds : tickets'[u] = IF u = t THEN NoTicket ELSE tickets[u]
    BY <1>4 DEF Typed, TicketsTyped
  <2>3. TicketsTyped'
    BY <1>4, <2>1 DEF Typed, TicketsTyped
  <2>4. Held'
    <3>1. \A c \in calls : c.kind \in {"sign-in", "recover"} => tickets'[c.ticket] = tickets[c.ticket]
      BY <1>4, <2>2 DEF TicketLocked, Held, SignInHolds, RecoveryHolds
    <3> QED
      BY <1>1, <3>1, HeldKept
  <2>5. Unopened'
    BY <1>1, <2>1, <2>2 DEF Unopened, SingleUse
  <2>6. DeletedStaysClosed' /\ ProtectionIsAPasskey'
    BY <1>1, <1>4, <2>1, <2>2 DEF DeletedStaysClosed, ProtectionIsAPasskey, State, Registered
  <2>7. SessionsTyped' /\ Granted'
    BY <1>1, <1>4 DEF Typed, SessionsTyped, Granted
  <2> QED
    BY <1>2, <2>3, <2>4, <2>5, <2>6, <2>7 DEF Typed
<1> QED
  BY <1>3, <1>4 DEF Lapse

-----------------------------------------------------------------------------
LEMMA DeletedFromPage ==
  ASSUME AccessInv, NEW b \in Browsers, Tombstone(ProfileOf(b)), Active(b), UNCHANGED <<calls,
         opened>>,
         NEW dialogue \in {"none", "authenticate", "delete", "deleted"},
         pages' = [pages EXCEPT ![b].dialogue = dialogue, ![b].cache = "none"]
  PROVE  AccessInv'
<1>1. ProfileOf(b) \in Profiles
  BY ActiveBrowser DEF AccessInv
<1>2. /\ pages' \in [Browsers -> PageRows]
      /\ \A d \in Browsers : pages'[d].session = pages[d].session
  BY DEF AccessInv, Typed, PagesTyped, PageRows
<1> QED
  BY <1>1, <1>2, DeletionStep

LEMMA DeleteProfileStep ==
  ASSUME AccessInv, NEW b \in Browsers, DeleteProfile(b)
  PROVE  AccessInv'
<1>1. /\ pages[b] \in PageRows
      /\ pages' = [pages EXCEPT ![b].dialogue = pages[b].dialogue, ![b].cache = "none"]
  BY DEF DeleteProfile, AccessInv, Typed, PagesTyped, PageRows
<1> QED
  BY <1>1, DeletedFromPage DEF DeleteProfile, PageRows

LEMMA DeleteFromPageStep ==
  ASSUME AccessInv, NEW b \in Browsers, DeleteFromPage(b)
  PROVE  AccessInv'
<1>1. CASE Active(b) /\ Recent(b)
  BY <1>1, DeletedFromPage DEF DeleteFromPage
<1>2. CASE ~(Active(b) /\ Recent(b))
  <2>1. UNCHANGED <<profiles, passkeys, sessions, tickets, calls, opened>>
    BY <1>2 DEF DeleteFromPage, rows
  <2>2. PagesTyped' /\ Granted'
    BY <1>2, <2>1 DEF DeleteFromPage, AccessInv, Typed, PagesTyped, PageRows, Granted
  <2> QED
    BY <2>1, <2>2 DEF AccessInv, Typed, ProfilesTyped, PasskeysTyped, SessionsTyped, TicketsTyped,
         CallsTyped, FinitelyRegistered, Held, SignInHolds, RecoveryHolds, Recoverable, Unopened,
         SingleUse, DeletedStaysClosed, ProtectionIsAPasskey, State, Registered
<1> QED
  BY <1>1, <1>2

LEMMA AccessInvInit == Init => AccessInv
<1> SUFFICES ASSUME Init
             PROVE  AccessInv
  OBVIOUS
<1> USE AccessAssumption DEF Init
<1>1. ProfilesTyped /\ PasskeysTyped /\ PagesTyped
  BY DEF ProfilesTyped, ProfileRows, PasskeysTyped, PagesTyped, PageRows, Page
<1>2. SessionsTyped /\ TicketsTyped
  BY DEF SessionsTyped, SessionRows, NoSession, TicketsTyped, TicketRows, NoTicket
<1>3. CallsTyped /\ Held /\ Recoverable
  BY FS_EmptySet DEF CallsTyped, Held, Recoverable
<1>4. FinitelyRegistered
  <2>1. {k \in Keys : passkeys[k] # NoProfile} = {}
    OBVIOUS
  <2> QED
    BY <2>1, FS_EmptySet DEF FinitelyRegistered
<1>5. Granted /\ Unopened
  BY DEF Granted, Page, Unopened, SingleUse, NoTicket
<1>6. DeletedStaysClosed /\ ProtectionIsAPasskey
  BY DEF DeletedStaysClosed, ProtectionIsAPasskey, State, Registered, NoTicket
<1> QED
  BY <1>1, <1>2, <1>3, <1>4, <1>5, <1>6 DEF AccessInv, Typed

LEMMA AsClientStep ==
  ASSUME AccessInv, NEW b \in Browsers, AsClient(b)
  PROVE  AccessInv'
<1>1. CASE \/ \E p \in Profiles, s \in SessionIds : CreateAnonymousProfile(b, p, s)
           \/ ReadProfile(b) \/ CreateRegistrationOptions(b)
           \/ \E t \in TicketIds, k \in Keys : RegisterPasskey(b, t, k)
           \/ \E s \in SessionIds : RenewSession(b, s)
           \/ \E k \in Keys : RevokePasskey(b, k)
  BY <1>1, CreateAnonymousProfileStep, ReadProfileStep, CreateRegistrationOptionsStep,
     RegisterPasskeyStep, RenewSessionStep, RevokePasskeyStep
<1>2. CASE Room /\ \/ \E t \in TicketIds, k \in Keys : SignIn(b, t, k)
                   \/ \E e \in Emails, p \in Profiles : StartRecovery(b, e, p)
                   \/ \E t \in TicketIds, k \in Keys : CompleteRecovery(b, t, k)
  BY <1>2, SignInStep, StartRecoveryStep, CompleteRecoveryStep DEF Room
<1>3. CASE \/ CreateHandoff(b)
           \/ \E t \in TicketIds, s \in SessionIds : RedeemHandoff(b, t, s)
           \/ \E e \in Emails : RequestRecoveryEmail(b, e)
           \/ DeleteProfile(b) \/ Dropped(b) \/ ConfirmDeletion(b) \/ DeleteFromPage(b)
  BY <1>3, CreateHandoffStep, RedeemHandoffStep, RequestRecoveryEmailStep, DeleteProfileStep,
     DroppedStep, ConfirmDeletionStep, DeleteFromPageStep
<1> QED
  BY <1>1, <1>2, <1>3 DEF AsClient

(* Every step keeps the invariant.                                         *)
LEMMA AccessInvStep == AccessInv /\ [Next]_vars => AccessInv'
<1> SUFFICES ASSUME AccessInv, [Next]_vars
             PROVE  AccessInv'
  OBVIOUS
<1>1. ASSUME NEW b \in Browsers, AsClient(b) \/ Reload(b)
      PROVE  AccessInv'
  BY <1>1, AsClientStep, ReloadStep
<1>2. CASE CreateSignInOptions \/ (\E t \in TicketIds : VerifyRecoveryEmail(t)) \/ Lapse
  BY <1>2, CreateSignInOptionsStep, VerifyRecoveryEmailStep, LapseStep
<1>3. ASSUME NEW c \in calls, NEW s \in SessionIds,
             FinishSignIn(c, s) \/ FinishRecovery(c, s) \/ Reauthenticated(c, s)
      PROVE  AccessInv'
  BY <1>3, FinishSignInStep, FinishRecoveryStep, ReauthenticatedStep
<1>4. ASSUME NEW c \in calls, FinishStart(c) \/ Rollback(c)
      PROVE  AccessInv'
  BY <1>4, FinishStartStep, RollbackStep
<1>5. CASE UNCHANGED vars
  BY <1>5 DEF vars, rows, AccessInv, Typed, ProfilesTyped, PasskeysTyped, SessionsTyped,
       TicketsTyped,
       CallsTyped, PagesTyped, FinitelyRegistered, Granted, Held, SignInHolds, RecoveryHolds,
       Recoverable, Unopened, SingleUse, DeletedStaysClosed, ProtectionIsAPasskey, State, Registered
<1> QED
  BY <1>1, <1>2, <1>3, <1>4, <1>5 DEF Next

(* Rows hold what their columns allow, and a ticket that names an email or *)
(* a profile is of a kind that has one.                                    *)
THEOREM ProfileTypes == Spec => []TypeOK
<1>1. AccessInv => TypeOK
  <2> SUFFICES ASSUME Typed
               PROVE  TypeOK
    BY DEF AccessInv
  <2>1. \A t \in TicketIds : tickets[t].kind \in TicketKinds \union {"none"}
    BY DEF Typed, TicketsTyped, TicketRows
  <2>2. \A c \in calls : c.kind \in {"sign-in", "start", "recover"}
    BY DEF Typed, CallsTyped, CallRows
  <2>3. \A b \in Browsers : /\ pages[b].session \in 0..MaxSessions
                            /\ pages[b].cache \in {"none", "anonymous", "protected"}
    BY DEF Typed, PagesTyped, PageRows
  <2> QED
    BY <2>1, <2>2, <2>3 DEF Typed, ProfilesTyped, ProfileRows, PasskeysTyped, SessionsTyped,
         SessionRows,
                            TicketsTyped, CallsTyped, TypeOK
<1> QED
  BY AccessInvInit, AccessInvStep, <1>1, PTL DEF Spec

(* Deletion closes every way into a profile, whatever sign-in or recovery  *)
(* was under way.                                                          *)
THEOREM DeletionCloses == Spec => []DeletedStaysClosed
<1>1. AccessInv => DeletedStaysClosed
  BY DEF AccessInv
<1> QED
  BY AccessInvInit, AccessInvStep, <1>1, PTL DEF Spec

(* A challenge, a code or a link lets in once.                             *)
THEOREM TicketsOpenOnce == Spec => []SingleUse
<1>1. AccessInv => SingleUse
  BY DEF AccessInv, Unopened
<1> QED
  BY AccessInvInit, AccessInvStep, <1>1, PTL DEF Spec

(* A profile is protected exactly while it has a passkey, and only one     *)
(* that is or was protected has a recovery email or a link sent to one.    *)
THEOREM ProtectedByAPasskey == Spec => []ProtectionIsAPasskey
<1>1. AccessInv => ProtectionIsAPasskey
  BY DEF AccessInv
<1> QED
  BY AccessInvInit, AccessInvStep, <1>1, PTL DEF Spec
=============================================================================
