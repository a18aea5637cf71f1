---------------------------- MODULE ProfileAccess ----------------------------
(***************************************************************************)
(* Who may act for a learner profile: sessions, passkeys, continuation     *)
(* codes, recovery links and deletion.                                     *)
(*   api/database.ts        the transactions                               *)
(*   api/http.ts            their routes and status codes                  *)
(*   src/profile-client.js, src/profile-api.js, src/js/main.js   the page  *)
(* A transaction that goes through authorize() holds its session and       *)
(* profile rows FOR UPDATE and takes one step.  A sign-in and a recovery   *)
(* hold their passkey or token row from a first step to a second one, and  *)
(* the start of a recovery holds nothing in between.                       *)
(***************************************************************************)
EXTENDS Naturals, FiniteSets

CONSTANTS
  Profiles, Browsers, Keys, Emails,
  NoProfile, NoKey, NoEmail,   \* a null column
  MaxSessions,  \* session rows that are in use, or that a browser still holds
  MaxTickets,   \* challenges, codes and links outstanding at a time
  MaxCalls,     \* two-step transactions in progress at a time
  WithPage      \* the page's own deletion dialogue is part of the model

ASSUME AccessAssumption ==
  /\ {MaxSessions, MaxTickets, MaxCalls} \subseteq Nat
  /\ NoProfile \notin Profiles /\ NoKey \notin Keys /\ NoEmail \notin Emails
  /\ WithPage \in BOOLEAN

VARIABLES
  profiles,  \* state, recovery_email, and whether canProtect() holds
  passkeys,  \* the profile each registered credential is for
  sessions,  \* profile, usable (neither revoked nor expired), recent
  tickets,   \* unconsumed, unexpired challenges, codes and tokens
  calls,     \* transactions between their two steps
  pages,     \* per browser: its grant, the client's cached state, its dialogue
  opened     \* history: how often each ticket has let somebody in

rows == <<profiles, passkeys, sessions, tickets>>
vars == <<rows, calls, pages, opened>>
------------------------------------------------------------------------------
SessionIds == 1..MaxSessions
TicketIds == 1..MaxTickets
TicketKinds == {"register", "sign-in", "handoff", "verify-email", "recover"}
NoSession == [profile |-> NoProfile, usable |-> FALSE, recent |-> FALSE]
NoTicket == [kind |-> "none", profile |-> NoProfile, email |-> NoEmail]
Unbound(kind, p, e) == [kind |-> kind, profile |-> NoProfile, email |-> e]  \* mutant
Ticket(kind, p, e) == [kind |-> kind, profile |-> p, email |-> e]
Call(kind, t, k, p, b, e) ==
  [kind |-> kind, ticket |-> t, key |-> k, profile |-> p, browser |-> b, email |-> e]
Page == [session |-> 0, cache |-> "none", dialogue |-> "none", about |-> NoProfile]

Init ==
  /\ profiles = [p \in Profiles |->
                   [state |-> "none", email |-> NoEmail, eligible |-> FALSE]]
  /\ passkeys = [k \in Keys |-> NoProfile]
  /\ sessions = [s \in SessionIds |-> NoSession]
  /\ tickets = [t \in TicketIds |-> NoTicket]
  /\ calls = {}
  /\ pages = [b \in Browsers |-> Page]
  /\ opened = [t \in TicketIds |-> 0]

State(p) == profiles[p].state
ProfileOf(b) == sessions[pages[b].session].profile

\* authorize: deletion takes precedence over an expired or revoked session.
Status(b) ==
  CASE pages[b].session = 0 -> "session-expired"
    [] pages[b].session # 0 /\ State(ProfileOf(b)) = "tombstoned" -> "deleted"
    [] OTHER -> IF sessions[pages[b].session].usable THEN "active" ELSE "session-expired"
Active(b) == Status(b) = "active"
Recent(b) == sessions[pages[b].session].recent
Registered(p) == {k \in Keys : passkeys[k] = p}

NoTicketLocked(t) == FALSE  \* mutants: rows are read without FOR UPDATE
NoKeyLocked(k) == FALSE
\* SELECT ... FOR UPDATE in a transaction that is still open.
TicketLocked(t) == \E c \in calls : c.ticket = t
KeyLocked(k) == \E c \in calls : c.kind = "sign-in" /\ c.key = k

FreeSession(s) == ~sessions[s].usable /\ \A b \in Browsers : pages[b].session # s
Opening(rows0, s, p) ==
  [rows0 EXCEPT ![s] = [profile |-> p, usable |-> TRUE, recent |-> FALSE]]
Ended(p) == [s \in SessionIds |-> IF sessions[s].profile = p
               THEN [sessions[s] EXCEPT !.usable = FALSE, !.recent = FALSE]
               ELSE sessions[s]]
\* The new grant reaches the browser, or the reply is lost.
Receive(b, s, state) ==
  \/ pages' = [pages EXCEPT ![b].session = s, ![b].cache = state]
  \/ pages' = pages

\* A new row, which a renewed token (one per profile and purpose) replaces.
Issue(ticket) ==
  \E t \in TicketIds :
    /\ IF \E u \in TicketIds : /\ tickets[u].kind = ticket.kind
                               /\ tickets[u].profile = ticket.profile
                               /\ ticket.kind \in {"verify-email", "recover"}
       THEN /\ tickets[t].kind = ticket.kind /\ tickets[t].profile = ticket.profile
            /\ ~TicketLocked(t)
       ELSE tickets[t] = NoTicket /\ \A u \in TicketIds : u < t => tickets[u] # NoTicket
    /\ tickets' = [tickets EXCEPT ![t] = ticket]
    /\ opened' = [opened EXCEPT ![t] = 0]

Consume(t) == /\ tickets' = [tickets EXCEPT ![t] = NoTicket]
              /\ opened' = [opened EXCEPT ![t] = @ + 1]
------------------------------------------------------------------------------
(* Anonymous use and protection.                                           *)
CreateAnonymousProfile(b, p, s) ==
  /\ State(p) = "none" /\ FreeSession(s)
  /\ profiles' = [profiles EXCEPT ![p].state = "anonymous"]
  /\ sessions' = Opening(sessions, s, p)
  /\ Receive(b, s, pages[b].cache)
  /\ UNCHANGED <<passkeys, tickets, calls, opened>>

\* readProfile, which the page caches; a third day or recordHistoryAccess
\* makes the profile eligible for protection.
ReadProfile(b) ==
  /\ Active(b)
  /\ \E eligible \in {profiles[ProfileOf(b)].eligible, TRUE} :
       profiles' = [profiles EXCEPT ![ProfileOf(b)].eligible = eligible]
  /\ pages' = [pages EXCEPT ![b].cache = State(ProfileOf(b))]
  /\ UNCHANGED <<passkeys, sessions, tickets, calls, opened>>

CreateRegistrationOptions(b) ==
  /\ Active(b)
  /\ \/ State(ProfileOf(b)) = "anonymous" /\ profiles[ProfileOf(b)].eligible
     \/ State(ProfileOf(b)) = "protected" /\ Recent(b)
  /\ Issue(Ticket("register", ProfileOf(b), NoEmail))
  /\ UNCHANGED <<profiles, passkeys, sessions, calls, pages>>

RegisterPasskey(b, t, k) ==
  /\ Active(b)
  /\ State(ProfileOf(b)) = "protected" => Recent(b)
  /\ tickets[t].kind = "register" /\ tickets[t].profile = ProfileOf(b)
  /\ Consume(t)
  /\ passkeys[k] = NoProfile
  /\ passkeys' = [passkeys EXCEPT ![k] = ProfileOf(b)]
  /\ profiles' = [profiles EXCEPT ![ProfileOf(b)].state = "protected"]
  /\ sessions' = [sessions EXCEPT ![pages[b].session].recent = TRUE]
  /\ pages' = [pages EXCEPT ![b].cache = "protected"]
  /\ UNCHANGED calls

RenewSession(b, s) ==
  /\ Active(b) /\ FreeSession(s)
  /\ sessions' = Opening([sessions EXCEPT ![pages[b].session] =
                            [@ EXCEPT !.usable = FALSE, !.recent = FALSE]],
                         s, ProfileOf(b))
  /\ Receive(b, s, pages[b].cache)
  /\ UNCHANGED <<profiles, passkeys, tickets, calls, opened>>

\* A register challenge is bound to no session, so any session of its profile
\* may answer it; the last passkey stays.
AnyRemovable(p) == Registered(p) # {}   \* mutant: the last one may go too
Removable(p) == Cardinality(Registered(p)) > 1

RevokePasskey(b, k) ==
  /\ Active(b) /\ Recent(b)
  /\ State(ProfileOf(b)) = "protected"
  /\ Removable(ProfileOf(b))
  /\ passkeys[k] = ProfileOf(b) /\ ~KeyLocked(k)
  /\ passkeys' = [passkeys EXCEPT ![k] = NoProfile]
  /\ UNCHANGED <<profiles, sessions, tickets, calls, pages, opened>>
------------------------------------------------------------------------------
(* Signing in with a passkey: its row and the challenge's stay locked.     *)
CreateSignInOptions ==
  /\ Issue(Ticket("sign-in", NoProfile, NoEmail))
  /\ UNCHANGED <<profiles, passkeys, sessions, calls, pages>>

SignIn(b, t, k) ==
  /\ passkeys[k] # NoProfile /\ ~KeyLocked(k)
  /\ tickets[t].kind = "sign-in" /\ ~TicketLocked(t)
  /\ calls' = calls \union {Call("sign-in", t, k, passkeys[k], b, NoEmail)}
  /\ UNCHANGED <<rows, pages, opened>>

FinishSignIn(c, s) ==
  /\ c.kind = "sign-in" /\ FreeSession(s)
  /\ Consume(c.ticket)
  /\ sessions' = Opening(sessions, s, c.profile)
  /\ calls' = calls \ {c}
  /\ Receive(c.browser, s, State(c.profile))
  /\ UNCHANGED <<profiles, passkeys>>

\* Another browser continues with a code.
CreateHandoff(b) ==
  /\ Active(b)
  /\ Issue(Ticket("handoff", ProfileOf(b), NoEmail))
  /\ UNCHANGED <<profiles, passkeys, sessions, calls, pages>>

RedeemHandoff(b, t, s) ==
  /\ tickets[t].kind = "handoff" /\ State(tickets[t].profile) # "tombstoned"
  /\ FreeSession(s)
  /\ Consume(t)
  /\ sessions' = Opening(sessions, s, tickets[t].profile)
  /\ Receive(b, s, State(tickets[t].profile))
  /\ UNCHANGED <<profiles, passkeys, calls>>
------------------------------------------------------------------------------
(* Recovery by email.                                                      *)
RequestRecoveryEmail(b, e) ==
  /\ Active(b) /\ Recent(b)
  /\ State(ProfileOf(b)) = "protected"
  /\ Issue(Ticket("verify-email", ProfileOf(b), e))
  /\ UNCHANGED <<profiles, passkeys, sessions, calls, pages>>

VerifyRecoveryEmail(t) ==
  /\ tickets[t].kind = "verify-email"
  /\ Consume(t)
  /\ profiles' = [profiles EXCEPT ![tickets[t].profile].email = tickets[t].email]
  /\ UNCHANGED <<passkeys, sessions, calls, pages>>

\* The row found for the email; the token is written in a second step, and a
\* token of a profile that was deleted in between is written all the same.
StartRecovery(b, e, p) ==
  /\ profiles[p].email = e /\ State(p) # "tombstoned"
  /\ calls' = calls \union {Call("start", 0, NoKey, p, b, e)}
  /\ UNCHANGED <<rows, pages, opened>>

FinishStart(c) ==
  /\ c.kind = "start"
  /\ Issue(Ticket("recover", c.profile, c.email))
  /\ calls' = calls \ {c}
  /\ UNCHANGED <<profiles, passkeys, sessions, pages>>

CompleteRecovery(b, t, k) ==
  /\ tickets[t].kind = "recover" /\ ~TicketLocked(t)
  /\ State(tickets[t].profile) # "tombstoned"
  /\ calls' = calls \union {Call("recover", t, k, tickets[t].profile, b, NoEmail)}
  /\ UNCHANGED <<rows, pages, opened>>

FinishRecovery(c, s) ==
  /\ c.kind = "recover" /\ FreeSession(s)
  /\ passkeys[c.key] = NoProfile
  /\ Consume(c.ticket)
  /\ passkeys' = [passkeys EXCEPT ![c.key] = c.profile]
  /\ sessions' = Opening(Ended(c.profile), s, c.profile)
  /\ calls' = calls \ {c}
  /\ Receive(c.browser, s, State(c.profile))
  /\ UNCHANGED profiles

\* Deadlock victims, a taken credential, a lost connection: ROLLBACK.  A sign-in
\* of the deletion dialogue that throws ends the dialogue.
Rollback(c) ==
  /\ calls' = calls \ {c}
  /\ IF c.kind = "sign-in" /\ pages[c.browser].dialogue = "authenticate"
     THEN pages' = [pages EXCEPT ![c.browser].dialogue = "none"]
     ELSE UNCHANGED pages
  /\ UNCHANGED <<rows, opened>>
------------------------------------------------------------------------------
(* Deletion.  It waits for the passkey and token rows of open transactions *)
(* (and these for its profile row: PostgreSQL then ends one of the two).   *)
Unlocked(p) == /\ \A k \in Registered(p) : ~KeyLocked(k)
               /\ \A t \in TicketIds : tickets[t].profile = p => ~TicketLocked(t)

Tombstone(p) ==
  /\ Unlocked(p)
  /\ profiles' = [profiles EXCEPT ![p].state = "tombstoned"]
  /\ sessions' = Ended(p)
  /\ passkeys' = [k \in Keys |-> IF passkeys[k] = p THEN NoProfile ELSE passkeys[k]]
  /\ tickets' = [t \in TicketIds |-> IF tickets[t].profile = p THEN NoTicket ELSE tickets[t]]

DeleteProfile(b) == /\ Active(b) /\ Recent(b)
                    /\ Tombstone(ProfileOf(b))
                    /\ pages' = [pages EXCEPT ![b].cache = "none"]
                    /\ UNCHANGED <<calls, opened>>

\* A reply "deleted" makes the page's adapter drop its grant.
Dropped(b) ==
  /\ Status(b) = "deleted"
  /\ pages' = [pages EXCEPT ![b].session = 0]
  /\ UNCHANGED <<rows, calls, opened>>

\* The page offers deletion for a profile it knows to be protected.  Once the
\* learner confirms, its client signs in first, then deletes, and the page shows
\* the profile as deleted unless one of the two throws; until it is reloaded.
ConfirmDeletion(b) ==
  /\ WithPage /\ pages[b].dialogue = "none" /\ pages[b].cache = "protected"
  /\ Active(b)
  /\ pages' = [pages EXCEPT ![b].about = ProfileOf(b), ![b].dialogue = "authenticate"]
  /\ UNCHANGED <<rows, calls, opened>>

Reload(b) ==
  /\ pages[b].cache # "none" \/ pages[b].dialogue # "none"
  /\ pages' = [pages EXCEPT ![b] = [Page EXCEPT !.session = pages[b].session]]
  /\ UNCHANGED <<rows, calls, opened>>

Reauthenticated(c, s) ==
  /\ c.kind = "sign-in" /\ pages[c.browser].dialogue = "authenticate" /\ FreeSession(s)
  /\ Consume(c.ticket)
  /\ sessions' = Opening(sessions, s, c.profile)
  /\ calls' = calls \ {c}
  /\ pages' = [pages EXCEPT ![c.browser].session = s, ![c.browser].dialogue = "delete"]
  /\ UNCHANGED <<profiles, passkeys>>

DeleteFromPage(b) ==
  /\ pages[b].dialogue = "delete"
  /\ IF Active(b) /\ Recent(b)
     THEN /\ Tombstone(ProfileOf(b))
          /\ pages' = [pages EXCEPT ![b].dialogue = "deleted", ![b].cache = "none"]
     ELSE pages' = [pages EXCEPT ![b].dialogue = "deleted"] /\ UNCHANGED rows
  /\ UNCHANGED <<calls, opened>>
------------------------------------------------------------------------------
(* Time: a session goes unused for thirty days, five minutes pass since    *)
(* the passkey, a challenge, code or link runs out.                        *)
Lapse ==
  /\ \/ \E s \in SessionIds :
          /\ sessions[s].usable
          /\ \E usable \in {FALSE, sessions[s].recent} :
               sessions' = [sessions EXCEPT ![s].usable = usable, ![s].recent = FALSE]
          /\ UNCHANGED tickets
     \/ \E t \in TicketIds :
          /\ tickets[t] # NoTicket /\ ~TicketLocked(t)
          /\ tickets' = [tickets EXCEPT ![t] = NoTicket]
          /\ UNCHANGED sessions
  /\ UNCHANGED <<profiles, passkeys, calls, pages, opened>>

Room == Cardinality(calls) < MaxCalls

AsClient(b) ==
  \/ \E p \in Profiles, s \in SessionIds : CreateAnonymousProfile(b, p, s)
  \/ ReadProfile(b)
  \/ CreateRegistrationOptions(b)
  \/ \E t \in TicketIds, k \in Keys : RegisterPasskey(b, t, k)
  \/ \E s \in SessionIds : RenewSession(b, s)
  \/ \E k \in Keys : RevokePasskey(b, k)
  \/ Room /\ \E t \in TicketIds, k \in Keys : SignIn(b, t, k)
  \/ CreateHandoff(b)
  \/ \E t \in TicketIds, s \in SessionIds : RedeemHandoff(b, t, s)
  \/ \E e \in Emails : RequestRecoveryEmail(b, e)
  \/ Room /\ \E e \in Emails, p \in Profiles : StartRecovery(b, e, p)
  \/ Room /\ \E t \in TicketIds, k \in Keys : CompleteRecovery(b, t, k)
  \/ DeleteProfile(b)
  \/ Dropped(b)
  \/ ConfirmDeletion(b)
  \/ DeleteFromPage(b)

Next ==
  \/ \E b \in Browsers : (pages[b].dialogue # "deleted" /\ AsClient(b)) \/ Reload(b)
  \/ CreateSignInOptions
  \/ \E t \in TicketIds : VerifyRecoveryEmail(t)
  \/ \E c \in calls : \/ \E s \in SessionIds : FinishSignIn(c, s) \/ FinishRecovery(c, s)
                      \/ \E s \in SessionIds : Reauthenticated(c, s)
                      \/ FinishStart(c) \/ Rollback(c)
  \/ Lapse

Spec == Init /\ [][Next]_vars
------------------------------------------------------------------------------
(* Properties.                                                             *)

\* Rows hold what their columns allow, and a ticket that names an email or a
\* profile is of a kind that has one.
TypeOK ==
  /\ profiles \in [Profiles -> [state : {"none", "anonymous", "protected", "tombstoned"},
                                email : Emails \union {NoEmail}, eligible : BOOLEAN]]
  /\ passkeys \in [Keys -> Profiles \union {NoProfile}]
  /\ sessions \in [SessionIds -> [profile : Profiles \union {NoProfile},
                                  usable : BOOLEAN, recent : BOOLEAN]]
  /\ \A s \in SessionIds : sessions[s].recent => sessions[s].usable
  /\ \A t \in TicketIds :
       /\ tickets[t].kind \in TicketKinds \union {"none"}
       /\ (tickets[t].profile # NoProfile) = (tickets[t].kind \notin {"none", "sign-in"})
       /\ (tickets[t].email # NoEmail) = (tickets[t].kind \in {"verify-email", "recover"})
  /\ Cardinality(calls) <= MaxCalls
  /\ \A c \in calls : c.kind \in {"sign-in", "start", "recover"}
  /\ \A b \in Browsers : /\ pages[b].session \in 0..MaxSessions
                         /\ pages[b].cache \in {"none", "anonymous", "protected"}

\* Deletion closes every way in, whatever sign-in or recovery was under way:
\* no passkey, no usable session, no code and no link of the profile is left
\* but a recovery token whose request read the profile before the deletion,
\* and no open transaction will let anybody in.
DeletedStaysClosed ==
  \A p \in Profiles : State(p) = "tombstoned" =>
    /\ Registered(p) = {}
    /\ \A s \in SessionIds : sessions[s].profile = p => ~sessions[s].usable
    /\ \A t \in TicketIds : tickets[t].profile = p => tickets[t].kind = "recover"
    /\ \A c \in calls : c.profile = p => c.kind = "start"

\* A challenge, a code or a link lets in once, also when it is presented twice
\* at the same time.
SingleUse == \A t \in TicketIds : opened[t] <= 1

\* A profile is protected exactly when it has a passkey, so its learner can
\* always sign in again; only a profile that is or was protected has a
\* recovery email or a link sent to one.
ProtectionIsAPasskey ==
  \A p \in Profiles :
    /\ (State(p) = "protected") = (Registered(p) # {})
    /\ (profiles[p].email # NoEmail \/ \E t \in TicketIds :
          tickets[t].profile = p /\ tickets[t].email # NoEmail)
         => State(p) \in {"protected", "tombstoned"}

\* The page shows a profile as deleted only when it is (PRODUCT-BRIEF.md:220).
ShownDeletedIsDeleted ==
  \A b \in Browsers : pages[b].dialogue = "deleted" =>
    State(pages[b].about) = "tombstoned"
===============================================================================
