----------------------------- MODULE LearnerSync -----------------------------
(***************************************************************************)
(* Browsers that record learning changes in a bounded outbox, send them in *)
(* batches over a network that loses and delays, and keep the last state   *)
(* they were sent; and the server that accepts a change once.              *)
(*   src/learning-sync.js  the client, its adapter and its storage         *)
(*   src/js/main.js        what starts its calls                           *)
(*   api/database.ts       synchronize, acceptOperation, authorize         *)
(* A browser's changes concern one delivery of the profile its state came  *)
(* from, so `of` names the delivery and its profile together.              *)
(***************************************************************************)
EXTENDS Integers, Sequences, SequencesExt, FiniteSets

CONSTANTS
  Devices,      \* client contexts: a tab's session storage and its saved record
  MaxProfiles,  \* profiles that may come to exist
  MaxOps,       \* changes the learner makes
  OutboxLimit,  \* maxOutboxOperations
  MaxFaults,    \* lost messages, reloads, expiries, lost saves, deletions
  MaxCalls,     \* calls a device has in progress at a time
  Allowed       \* which of "skip", "link", "background", "lost_save" happen

ASSUME SyncAssumption ==
  /\ {MaxOps, MaxFaults, MaxCalls} \subseteq Nat
  /\ {MaxProfiles, OutboxLimit} \subseteq Nat \ {0}
  /\ Allowed \subseteq {"skip", "link", "background", "lost_save"}

VARIABLES
  tombstoned,  \* deleted profiles
  sessions,    \* the rows of sessions: profile, and neither revoked nor expired
  log,         \* per profile, accepted_operations in accepted order
  started,     \* learningStarted
  deleted,     \* the page shows that the profile is deleted
  grant,       \* the session a device has stored, 0 for none
  outbox, cache, next,  \* #outbox, #cache, #nextOperation
  stored,      \* the saved record
  due,         \* a turn of the reconciliation chain is waiting
  calls,       \* per device and kind, its call in progress
  late,        \* requests whose caller has given up and that may still arrive
  faults,
  made, given  \* history: changes recorded, and changes a device gave up

server == <<tombstoned, sessions, log>>
page == <<started, deleted, due>>
store == <<outbox, cache, next, stored>>
vars == <<server, page, store, grant, calls, late, faults, made, given>>
------------------------------------------------------------------------------
Home == 1   \* the learner's existing profile
NoCache == [of |-> 0, changes |-> 0]   \* emptyCache
Nothing == [outbox |-> <<>>, cache |-> NoCache, next |-> 1]
Kinds == {"sync", "hydrate", "skip", "signin", "link", "fresh"}
NoReply == [status |-> "none", cache |-> NoCache]
Idle == [phase |-> "idle", sent |-> <<>>, grant |-> 0, reply |-> NoReply]
Call(phase, sent, g) == [phase |-> phase, sent |-> sent, grant |-> g, reply |-> NoReply]
Profiles == 1..MaxProfiles
Changes == [dev : Devices, id : 1..MaxOps, of : Profiles, data : 1..MaxOps]

Init ==
  /\ tombstoned = {} /\ sessions = <<>> /\ log = <<<<>>>>
  /\ started = [d \in Devices |-> FALSE] /\ deleted = started /\ due = started
  /\ grant = [d \in Devices |-> 0]
  /\ outbox = [d \in Devices |-> <<>>]
  /\ cache = [d \in Devices |-> NoCache]
  /\ next = [d \in Devices |-> 1]
  /\ stored = [d \in Devices |-> Nothing]
  /\ calls = [d \in Devices |-> [k \in Kinds |-> Idle]]
  /\ late = {} /\ faults = 0 /\ made = {} /\ given = {}

Fault == faults < MaxFaults /\ faults' = faults + 1
Free(d, k) == /\ calls[d][k] = Idle
              /\ Cardinality({x \in Kinds : calls[d][x] # Idle}) < MaxCalls
SetCall(d, k, c) == calls' = [calls EXCEPT ![d][k] = c]

(* #save: it is not awaited and its failure is ignored. *)
Save(d) ==
  \/ /\ stored' = [stored EXCEPT ![d] =
           [outbox |-> outbox'[d], cache |-> cache'[d], next |-> next'[d]]]
     /\ UNCHANGED faults
  \/ "lost_save" \in Allowed /\ Fault /\ UNCHANGED stored

Clear(d) ==
  /\ outbox' = [outbox EXCEPT ![d] = <<>>]
  /\ cache' = [cache EXCEPT ![d] = NoCache]
  /\ stored' = [stored EXCEPT ![d] = Nothing]
  /\ given' = given \union ToSet(outbox[d])

\* Array filter: the changes of a queue that are in a set, in their order (a
\* recursive function, which the proofs unfold).
Only(ops, S) ==
  LET kept[n \in 0..Len(ops)] ==
        IF n = 0 THEN <<>>
        ELSE IF ops[n] \in S THEN Append(kept[n - 1], ops[n]) ELSE kept[n - 1]
  IN  kept[Len(ops)]

UnboundedQueue(ops, op) == Append(ops, op)  \* mutant: the limit is forgotten

\* #queue
Queued(ops, op) == LET all == Append(ops, op)
                   IN  IF Len(all) > OutboxLimit THEN Tail(all) ELSE all
------------------------------------------------------------------------------
(* The page.                                                               *)
Record(d) ==
  /\ started[d] /\ ~deleted[d] /\ cache[d].of # 0
  /\ Cardinality(made) < MaxOps
  /\ LET op == [dev |-> d, id |-> next[d], of |-> cache[d].of,
                data |-> Cardinality(made) + 1]
     IN  /\ outbox' = [outbox EXCEPT ![d] = Queued(@, op)]
         /\ made' = made \union {op}
  /\ given' = given \union (ToSet(outbox[d]) \ ToSet(outbox'[d]))
  /\ next' = [next EXCEPT ![d] = @ + 1]
  /\ \E online \in BOOLEAN : due' = [due EXCEPT ![d] = @ \/ online]
  /\ UNCHANGED <<server, started, deleted, cache, grant, calls, late>>
  /\ Save(d)

\* Coming online, the page becoming visible, and Retry on a started page.
Reconcile(d) ==
  /\ ~due[d]
  /\ started[d] \/ "background" \in Allowed
  /\ due' = [due EXCEPT ![d] = TRUE]
  /\ UNCHANGED <<server, started, deleted, store, grant, calls, late, faults, made, given>>

\* synchronize on its turn: expired changes are dropped, the rest is sent
\* with the stored session, or with a new anonymous profile if there is none.
StartSync(d) ==
  /\ due[d] /\ Free(d, "sync")
  /\ \E n \in 0..Len(outbox[d]) :
       /\ IF n = 0 THEN UNCHANGED faults ELSE Fault
       /\ given' = given \union ToSet(SubSeq(outbox[d], 1, n))
       /\ outbox' = [outbox EXCEPT ![d] = SubSeq(@, n + 1, Len(@))]
  /\ SetCall(d, "sync", Call(IF grant[d] = 0 THEN "create" ELSE "asked",
                             outbox'[d], grant[d]))
  /\ due' = [due EXCEPT ![d] = FALSE]
  /\ UNCHANGED <<server, started, deleted, cache, next, stored, grant, late, made>>

\* skipUpcoming does not wait for the chain.
Skip(d) ==
  /\ "skip" \in Allowed
  /\ started[d] /\ ~deleted[d] /\ cache[d].of # 0 /\ Free(d, "skip")
  /\ SetCall(d, "skip", Call(IF grant[d] = 0 THEN "create" ELSE "asked", <<>>, grant[d]))
  /\ UNCHANGED <<server, page, store, grant, late, faults, made, given>>

StartFresh(d) ==
  /\ ~started[d] /\ ~deleted[d] /\ Free(d, "fresh")
  /\ SetCall(d, "fresh", Call("create", <<>>, 0))
  /\ UNCHANGED <<server, page, store, grant, late, faults, made, given>>

\* Sign-in with a passkey, or a continuation code typed on the welcome page:
\* discard comes first.
SignIn(d) ==
  /\ ~started[d] /\ ~deleted[d] /\ Free(d, "signin")
  /\ Clear(d)
  /\ SetCall(d, "signin", Call("asked", <<>>, 0))
  /\ UNCHANGED <<server, page, next, grant, late, faults, made>>

\* The batch of a call in progress, which may arrive after its caller is gone.
Orphans(d) == {[grant |-> c.grant, sent |-> c.sent] :
                 c \in {x \in {calls[d]["sync"]} : x.phase = "asked" /\ x.sent # <<>>}}

(* A reload, or a tab that is killed and restored: the saved record is     *)
(* loaded and calls in progress lose their caller.                         *)
Reload(d) ==
  /\ Fault
  /\ started' = [started EXCEPT ![d] = grant[d] # 0]
  /\ deleted' = [deleted EXCEPT ![d] = FALSE]
  /\ next' = [next EXCEPT ![d] = stored[d].next]
  /\ late' = late \union Orphans(d)
  /\ UNCHANGED <<server, grant, made>>

Restart(d) ==
  /\ Reload(d)
  /\ outbox' = [outbox EXCEPT ![d] = stored[d].outbox]
  /\ cache' = [cache EXCEPT ![d] = stored[d].cache]
  /\ given' = given \union (ToSet(outbox[d]) \ ToSet(stored[d].outbox))
  /\ due' = [due EXCEPT ![d] = started'[d]]
  /\ calls' = [calls EXCEPT ![d] = [k \in Kinds |-> Idle]]
  /\ UNCHANGED stored

\* The page is opened with a continuation code: discard, whether or not the
\* tab already has a session.
OpenLink(d) ==
  /\ "link" \in Allowed
  /\ Reload(d)
  /\ Clear(d)
  /\ due' = [due EXCEPT ![d] = FALSE]
  /\ calls' = [calls EXCEPT ![d] =
       [[k \in Kinds |-> Idle] EXCEPT !["link"] = Call("asked", <<>>, 0)]]
------------------------------------------------------------------------------
(* The adapter and the server.                                             *)
\* An anonymous profile is created and its session replaces the stored one.
Created(d, k) ==
  /\ calls[d][k].phase = "create" /\ Len(log) < MaxProfiles
  /\ log' = Append(log, <<>>)
  /\ sessions' = Append(sessions, [profile |-> Len(log) + 1, live |-> TRUE])
  /\ grant' = [grant EXCEPT ![d] = Len(sessions) + 1]
  /\ IF k = "fresh"
     THEN /\ SetCall(d, k, Idle)
          /\ started' = [started EXCEPT ![d] = TRUE]
          /\ due' = [due EXCEPT ![d] = TRUE]
     ELSE /\ SetCall(d, k, Call("asked", calls[d][k].sent, Len(sessions) + 1))
          /\ UNCHANGED <<started, due>>
  /\ UNCHANGED <<tombstoned, deleted, store, late, faults, made, given>>

\* signIn and redeemHandoff: a session of the existing profile.
Joined(d, k) ==
  /\ k \in {"signin", "link"} /\ calls[d][k].phase = "asked"
  /\ Home \notin tombstoned
  /\ sessions' = Append(sessions, [profile |-> Home, live |-> TRUE])
  /\ grant' = [grant EXCEPT ![d] = Len(sessions) + 1]
  /\ started' = [started EXCEPT ![d] = TRUE]
  /\ calls' = [calls EXCEPT ![d] = IF k = "signin"
       THEN [@ EXCEPT ![k] = Idle, !["hydrate"] = Call("asked", <<>>, Len(sessions) + 1)]
       ELSE [@ EXCEPT ![k] = Idle]]
  /\ due' = [due EXCEPT ![d] = @ \/ k = "link"]
  /\ UNCHANGED <<tombstoned, log, deleted, store, late, faults, made, given>>

NotJoined(d, k) ==
  /\ k \in {"signin", "link"} /\ calls[d][k].phase = "asked"
  /\ IF Home \in tombstoned THEN UNCHANGED faults ELSE Fault
  /\ SetCall(d, k, Idle)
  /\ due' = [due EXCEPT ![d] = @ \/ (k = "link" /\ started[d])]
  /\ UNCHANGED <<server, started, deleted, store, grant, late, made, given>>

SameId(a, b) == a.dev = b.dev /\ a.id = b.id
Known(p, op) == \E e \in ToSet(log[p]) : SameId(e, op)

\* A batch is refused as a whole when one of its ids was used with other data
\* (409) or one of its deliveries belongs to another profile (400).
Acceptable(p, ops) ==
  \A op \in ToSet(ops) : IF Known(p, op) THEN op \in ToSet(log[p]) ELSE op.of = p

Unchecked(p, ops) == ops  \* mutant: an accepted id is accepted again

NewOps(p, ops) == Only(ops, {op \in ToSet(ops) : ~Known(p, op)})
\* authorize: deletion takes precedence over an ended session.
Standing(g) == IF sessions[g].profile \in tombstoned THEN "deleted"
               ELSE IF ~sessions[g].live THEN "session-expired" ELSE "active"

Status(g, ops) == IF Standing(g) # "active" THEN Standing(g)
                  ELSE IF Acceptable(sessions[g].profile, ops) THEN "active" ELSE "refused"

Accept(g, ops) ==
  log' = IF Status(g, ops) = "active"
         THEN [log EXCEPT ![sessions[g].profile] = @ \o NewOps(sessions[g].profile, ops)]
         ELSE log

Serve(d, k) ==
  LET c == calls[d][k]
      p == sessions[c.grant].profile
  IN  /\ k \in {"sync", "hydrate", "skip"} /\ c.phase = "asked"
      /\ Accept(c.grant, c.sent)
      /\ SetCall(d, k, [c EXCEPT !.phase = "answered",
           !.reply = [status |-> Status(c.grant, c.sent),
                       cache |-> [of |-> p, changes |-> Len(log'[p])]]])
      /\ UNCHANGED <<tombstoned, sessions, page, store, grant, late, faults, made, given>>

ServeLate ==
  \E c \in late :
    /\ Accept(c.grant, c.sent)
    /\ late' = late \ {c}
    /\ UNCHANGED <<tombstoned, sessions, page, store, grant, calls, faults,
                   made, given>>

DeleteProfile ==
  /\ Fault
  /\ Home \notin tombstoned
  /\ \E g \in DOMAIN sessions : sessions[g].profile = Home
  /\ tombstoned' = {Home}
  /\ UNCHANGED <<sessions, log, page, store, grant, calls, late, made, given>>

EndSession(g) ==
  /\ Fault
  /\ sessions[g].live
  /\ sessions' = [sessions EXCEPT ![g].live = FALSE]
  /\ UNCHANGED <<tombstoned, log, page, store, grant, calls, late, made, given>>
------------------------------------------------------------------------------
(* #accept, and what main.js does with its result.                         *)
\* Mutants: the reply removes as many operations as were sent, all of them, or
\* none.
UncountedUnsent(ops, sent) == SubSeq(ops, Len(sent) + 1, Len(ops))
NoneUnsent(ops, sent) == <<>>
AllUnsent(ops, sent) == ops

Unsent(ops, sent) == Only(ops, {op \in ToSet(ops) : \A s \in ToSet(sent) : ~SameId(s, op)})

Answer(d, k) ==
  LET c == calls[d][k]
  IN  /\ c.phase = "answered"
      /\ SetCall(d, k, Idle)
      /\ \/ /\ c.reply.status = "deleted"
            /\ Clear(d)
            /\ grant' = [grant EXCEPT ![d] = 0]
            /\ deleted' = [deleted EXCEPT ![d] = @ \/ k = "sync"]
            /\ UNCHANGED <<next, faults>>
         \/ /\ c.reply.status = "active"
            /\ outbox' = [outbox EXCEPT ![d] = Unsent(@, c.sent)]
            /\ cache' = [cache EXCEPT ![d] = c.reply.cache]
            /\ UNCHANGED <<next, grant, deleted, given>>
            /\ Save(d)
         \/ /\ c.reply.status = "session-expired"
            /\ UNCHANGED <<outbox, cache, next, grant, deleted, given>>
            /\ Save(d)
         \/ /\ c.reply.status = "refused"
            /\ UNCHANGED <<store, grant, deleted, given, faults>>
      /\ UNCHANGED <<server, started, due, late, made>>

\* The call throws: its request, its reply or the creation of a profile is
\* lost, and a request on its way may still arrive. Once MaxProfiles exist,
\* creating another one fails.
Exhausted(d, k) == calls[d][k].phase = "create" /\ Len(log) = MaxProfiles

Lose(d, k) ==
  /\ IF Exhausted(d, k) THEN UNCHANGED faults ELSE Fault
  /\ calls[d][k].phase \in {"create", "asked", "answered"} /\ k \notin {"signin", "link"}
  /\ SetCall(d, k, Idle)
  /\ late' = IF k = "sync" THEN late \union Orphans(d) ELSE late
  /\ UNCHANGED <<server, page, store, grant, made, given>>
------------------------------------------------------------------------------
Network(d, k) == \/ Created(d, k) \/ Joined(d, k) \/ NotJoined(d, k)
                 \/ Serve(d, k) \/ Answer(d, k)

Next == \/ \E d \in Devices :
             \/ Record(d) \/ Reconcile(d) \/ StartSync(d) \/ Skip(d)
             \/ StartFresh(d) \/ SignIn(d) \/ Restart(d) \/ OpenLink(d)
             \/ \E k \in Kinds : Network(d, k) \/ Lose(d, k)
        \/ ServeLate \/ DeleteProfile
        \/ \E g \in DOMAIN sessions : EndSession(g)

Spec == Init /\ [][Next]_vars

(* The page is shown and online again and again, a turn of the chain that  *)
(* waits runs, and a call is answered or fails.                            *)
FairSpec == Spec /\ \A d \in Devices :
                      /\ WF_vars(Reconcile(d))
                      /\ WF_vars(StartSync(d))
                      /\ \A k \in Kinds :
                           WF_vars(Network(d, k) \/ (Exhausted(d, k) /\ Lose(d, k)))
------------------------------------------------------------------------------
(* Every variable has its type; the profiles stay within their bound.      *)
TypeOK ==
  /\ tombstoned \subseteq {Home} /\ Len(log) <= MaxProfiles
  /\ \A g \in DOMAIN sessions : sessions[g] \in [profile : 1..Len(log), live : BOOLEAN]
  /\ made \subseteq Changes /\ given \subseteq made
  /\ \A p \in DOMAIN log : ToSet(log[p]) \subseteq made
  /\ \A d \in Devices :
       /\ grant[d] \in 0..Len(sessions) /\ cache[d].of \in 0..Len(log)
       /\ Len(outbox[d]) <= OutboxLimit /\ ToSet(outbox[d]) \subseteq made
       /\ ToSet(stored[d].outbox) \subseteq made /\ next[d] \in 1..MaxOps + 1
       /\ \A k \in Kinds : calls[d][k].phase \in {"idle", "create", "asked", "answered"}

(* A change the learner made waits in the outbox of its device, has taken  *)
(* effect in its profile, or was given up by a rule: the outbox was full,  *)
(* it was thirty days old, the device was asked to forget, or its page     *)
(* ended before it was saved. In particular no reply of a lost, repeated or*)
(* overtaken call removes a change the server did not take.                *)
NothingForgotten ==
  \A op \in made : \/ op \in ToSet(outbox[op.dev])
                   \/ op \in ToSet(log[op.of])
                   \/ op \in given

(* The state a turn of the reconciliation chain brings shows every change  *)
(* of its device to that profile which is no longer in the outbox, however *)
(* many changes were made, retried or reloaded while the turn ran.         *)
ReconcileShows ==
  [][\A d \in Devices :
       Answer(d, "sync") /\ calls[d]["sync"].reply.status = "active" =>
         \A op \in made \ given :
           op.dev = d /\ op.of = cache'[d].of /\ op \notin ToSet(outbox'[d]) =>
             op \in ToSet(SubSeq(log[op.of], 1, cache'[d].changes))]_vars

(* Each change takes effect at most once and those to one delivery in the  *)
(* learner's order, although batches are repeated, overtaken and arrive    *)
(* after their caller gave them up.                                        *)
Log == INSTANCE LearnerLog WITH
         taken <- [p \in Profiles |-> IF p \in DOMAIN log THEN log[p] ELSE <<>>]
ImplementsLearnerLog == Log!LogSpec

(* What keeps an outbox from draining for good: its session ended and the  *)
(* page offers no way to another, or its batch is refused, or there are  *)
(* no profiles left for it within MaxProfiles.                             *)
Blocked(d) ==
  \/ ~started[d]
  \/ grant[d] = 0 /\ Len(log) = MaxProfiles
  \/ grant[d] # 0 /\ Standing(grant[d]) = "session-expired"
  \/ grant[d] # 0 /\ ~Acceptable(sessions[grant[d]].profile, outbox[d])

(* While the page is used, an outbox is emptied again and again unless it  *)
(* is blocked.                                                             *)
Drained == \A d \in Devices : []<>(outbox[d] = <<>> \/ Blocked(d))
==============================================================================
