---------------------------- MODULE DailyDelivery ----------------------------
(***************************************************************************)
(* The daily word of one profile next to the publication of its lessons.   *)
(* Reads, syncs and skips of all its sessions are transactions that lock   *)
(* the profile's row, so one runs at a time; each of its statements sees   *)
(* what publication has committed by then.                                 *)
(*   api/database.ts         ensureDailyDelivery, skipUpcoming,            *)
(*                           acceptOperation, learnerState                 *)
(*   src/learner-state-contract.ts   what the client keeps                 *)
(* Lessons of another starting band are never considered and left out.     *)
(***************************************************************************)
EXTENDS Publication

CONSTANTS QueueSize,  \* upcoming words kept in reserve, five in the code
          MaxDays, Zones, \* time zones as days ahead of the server's
          MaxRequests

ASSUME DeliveryAssumption ==
  /\ QueueSize \in Nat /\ Zones \subseteq Nat /\ {MaxDays, MaxRequests} \subseteq Nat
  /\ Lessons \subseteq Nat \ {0}

VARIABLES
  day,
  deliveries,                    \* the profile's rows: date, lesson and word
  reserved,                      \* id, lesson, word and queue position
  skipped,                       \* the words, each with the id it had in reserve
  practised,                     \* the practice operations it has accepted
  drawn,                         \* ids given to reserved words so far
  request,                       \* the transaction in progress
  kept,                          \* what the client keeps of the last reply
  requests

profile == <<deliveries, reserved, skipped, practised, drawn>>
deliveryVars == <<day, profile, request, kept, requests>>
allVars == <<publication, deliveryVars>>

Rows == [deliveries |-> deliveries, reserved |-> reserved, skipped |-> skipped,
         practised |-> practised, drawn |-> drawn]
Rest == [phase |-> "idle"]
Nothing == [items |-> {}, upcoming |-> {}]

DeliveryInit ==
  /\ PublicationInit
  /\ day = 1 /\ deliveries = {} /\ reserved = {} /\ skipped = {} /\ practised = {}
  /\ drawn = 0 /\ request = Rest /\ kept = Nothing /\ requests = 0
------------------------------------------------------------------------------
Words(rows) == {row.word : row \in rows}
RowIds(rows) == {row.id : row \in rows}

\* Mutant: a skipped word may come back.
SkippedToo(l, word, r) == shelf[l].available /\ word \notin Words(r.deliveries)

\* Published, not withdrawn, not delivered and not skipped.
Deliverable(l, word, r) ==
  /\ shelf[l].available
  /\ word \notin Words(r.deliveries)
  /\ word \notin Words(r.skipped)

FirstLesson(r, taken) ==
  LET free == {l \in Lessons : Deliverable(l, shelf[l].word, r) /\ shelf[l].word \notin taken}
  IN  IF free = {} THEN 0 ELSE CHOOSE l \in free : \A other \in free : l <= other

Row(id, l, position) == [id |-> id, lesson |-> l, word |-> shelf[l].word, position |-> position]

\* discardIneligibleUpcoming
Discarded(r) == [r EXCEPT !.reserved = {row \in @ : Deliverable(row.lesson, row.word, r)}]

\* nextReserved
NextReserved(rows) == CHOOSE row \in rows : \A other \in rows : row.position <= other.position

\* The first reserved word, or the next lesson, which has no id.
Upcoming(r) == IF r.reserved # {} THEN {NextReserved(r.reserved)}
               ELSE IF FirstLesson(r, {}) # 0 THEN {Row(0, FirstLesson(r, {}), 0)}
               ELSE {}

\* A date has one delivery, if there is anything left to deliver.
Delivered(r, date) ==
  IF \E d \in r.deliveries : d.date = date THEN r
  ELSE [r EXCEPT
         !.deliveries = @ \union {[date |-> date, lesson |-> row.lesson, word |-> row.word] :
                                    row \in Upcoming(r)},
         !.reserved = @ \ Upcoming(r)]

Vacant(r) == Cardinality(r.reserved) < QueueSize /\ FirstLesson(r, Words(r.reserved)) # 0

Positions(rows) == {row.position : row \in rows}

\* Mutant: the first place that is free.
FreePosition(rows) ==
  CHOOSE n \in 1..(QueueSize + 1) : n \notin Positions(rows) /\ 1..(n - 1) \subseteq Positions(rows)

\* The place behind every row of the queue.
NextPosition(rows) ==
  IF rows = {} THEN 1
  ELSE 1 + CHOOSE n \in Positions(rows) : \A m \in Positions(rows) : m <= n

\* The unique keys of deliveries and reserved_upcoming_words.
UniqueKeys(r) ==
  /\ \A d, e \in r.deliveries : d.date = e.date \/ d.word = e.word => d = e
  /\ \A x, y \in r.reserved :
       x.id = y.id \/ x.word = y.word \/ x.lesson = y.lesson \/ x.position = y.position => x = y
------------------------------------------------------------------------------
StartRequest(what, zone) ==
  /\ request = Rest /\ requests < MaxRequests
  /\ request' = [phase |-> "discard", what |-> what, date |-> day + zone, rows |-> Rows,
                 filled |-> FALSE, lessons |-> {}]
  /\ requests' = requests + 1
  /\ UNCHANGED <<publication, day, profile, kept>>

Step(phase, rows) ==
  /\ request' = IF UniqueKeys(rows) THEN [request EXCEPT !.phase = phase, !.rows = rows]
                ELSE [request EXCEPT !.phase = "failed"]
  /\ UNCHANGED <<publication, day, profile, kept, requests>>

\* An ApiError is thrown; Rollback follows.
Refuse ==
  /\ request' = [request EXCEPT !.phase = "refused"]
  /\ UNCHANGED <<publication, day, profile, kept, requests>>

Discard == request.phase = "discard" /\ Step("deliver", Discarded(request.rows))
Deliver == request.phase = "deliver" /\ Step("fill", Delivered(request.rows, request.date))

\* fillUpcoming, one vacancy at a time.
Fill ==
  /\ request.phase = "fill"
  /\ LET r == request.rows
     IN  IF Vacant(r)
         THEN Step("fill", [r EXCEPT !.drawn = @ + 1, !.reserved = @ \union
                {Row(r.drawn + 1, FirstLesson(r, Words(r.reserved)), NextPosition(r.reserved))}])
         ELSE Step(IF request.filled THEN "lessons" ELSE request.what.kind, r)

\* ON CONFLICT DO NOTHING: a word is skipped once, and so is an id.
NewSkips(r, id) == {[word |-> row.word, id |-> id] :
  row \in {x \in r.reserved : x.id = id /\ x.word \notin Words(r.skipped)
                             /\ id \notin RowIds(r.skipped)}}

\* The word reserved under the id is skipped and its place filled again; an
\* id that was skipped is answered once more, and any other is a 404.
SkipWord ==
  /\ request.phase = "skip"
  /\ LET r == request.rows
         id == request.what.row.id
     IN  IF id \in RowIds(r.reserved)
         THEN /\ request' = [request EXCEPT !.phase = "fill", !.filled = TRUE, !.rows =
                   [r EXCEPT !.skipped = @ \union NewSkips(r, id),
                             !.reserved = {row \in @ : row.id # id}]]
              /\ UNCHANGED <<publication, day, profile, kept, requests>>
         ELSE IF id \in RowIds(r.skipped) THEN Step("lessons", r)
         ELSE Refuse

AnswerableNow(i, r) == bank[i] = "available"  \* mutant

\* acceptOperation for a practice answer: the item was published for the
\* lesson of one of the profile's deliveries, whether or not it still is.
Answerable(i, r) == /\ bank[i] # "unborn"
                    /\ \E d \in r.deliveries : d.lesson = i.lesson

AcceptPractice ==
  /\ request.phase = "sync"
  /\ IF Answerable(request.what.item, request.rows)
     THEN Step("lessons", [request.rows EXCEPT !.practised = @ \union {request.what.item}])
     ELSE Refuse

\* learnerState reads the lessons first and everything else after them.
ReadLessons ==
  /\ request.phase = "lessons"
  /\ request' = [request EXCEPT !.phase = "rest", !.lessons =
       {[lesson |-> l, record |-> shelf[l].record] : l \in
          {x \in Lessons : shelf[x].available
             /\ \E d \in request.rows.deliveries : d.lesson = x}}]
  /\ UNCHANGED <<publication, day, profile, kept, requests>>

\* projectLearnerState keeps the lessons with a current delivery and the
\* items that match one of them. What the client asks for names items only.
Projected(lessons) ==
  {i \in Items : bank[i] = "available" /\ \E x \in lessons :
     x.lesson = i.lesson /\ shelf[x.lesson].available /\ Matches(i, x.record)}

ReadRest ==
  /\ request.phase = "rest"
  /\ deliveries' = request.rows.deliveries /\ reserved' = request.rows.reserved
  /\ skipped' = request.rows.skipped /\ practised' = request.rows.practised
  /\ drawn' = request.rows.drawn
  /\ kept' \in {kept, [items |-> Projected(request.lessons), upcoming |-> request.rows.reserved]}
  /\ request' = Rest
  /\ UNCHANGED <<publication, day, requests>>

\* A statement fails, an error is thrown or the connection is lost.
Rollback ==
  /\ request # Rest /\ request' = Rest
  /\ UNCHANGED <<publication, day, profile, kept, requests>>

NextDay ==
  /\ day < MaxDays /\ day' = day + 1
  /\ UNCHANGED <<publication, profile, request, kept, requests>>

\* The client asks with what it keeps, however old: it skips a word it was
\* shown, by its id, and answers an item it was served.
Requests == {[kind |-> "lessons"]}
            \union {[kind |-> "skip", row |-> row] : row \in kept.upcoming}
            \union {[kind |-> "sync", item |-> i] : i \in kept.items}

DeliveryNext ==
  \/ \E what \in Requests : \E zone \in Zones : StartRequest(what, zone)
  \/ Discard \/ Deliver \/ Fill \/ SkipWord \/ AcceptPractice
  \/ ReadLessons \/ ReadRest \/ Rollback \/ NextDay

Next == \/ PublicationNext /\ UNCHANGED deliveryVars
        \/ DeliveryNext

Spec == DeliveryInit /\ [][Next]_allVars
------------------------------------------------------------------------------
(* A word is the learner's once: whatever is withdrawn, republished,       *)
(* skipped or asked for from another time zone, no word that was delivered *)
(* or skipped is delivered again or comes up again, a date has one, and    *)
(* the words that come up are published and never more than the queue has. *)
WordsOnce ==
  /\ Cardinality(reserved) <= QueueSize
  /\ Words(deliveries) \union Words(reserved) \subseteq {shelf[l].word : l \in Lessons} \ {"none"}
  /\ UniqueKeys(Rows)
  /\ (Words(deliveries) \union Words(reserved)) \intersect Words(skipped) = {}
  /\ Words(deliveries) \intersect Words(reserved) = {}

(* Requests follow what the client was shown, however late. None meets a   *)
(* unique key and no answer to a served item is refused. A skip that took  *)
(* effect is never refused when it is repeated; and a 404 means that the   *)
(* word was delivered (by an earlier request, or by this one before it is  *)
(* rolled back), unless something has been withdrawn: then the reservation *)
(* may have been discarded, and the word reserved under another id.        *)
OnlyLateSkipsFail ==
  /\ request.phase # "failed"
  /\ request.phase = "refused" =>
       /\ request.what.kind = "skip"
       /\ request.what.row.id \notin RowIds(skipped)
       /\ withdrawals = 0 => request.what.row.word \in Words(request.rows.deliveries)

(* Words are delivered in the order they came up: whatever is skipped,     *)
(* discarded and refilled in between, no committed transaction delivers a  *)
(* reserved word before one that waited longer and still waits, and what   *)
(* it reserves goes behind everything that waits (CONTEXT.md:216).         *)
UpcomingInOrder ==
  [][\A y \in reserved' :
       /\ \A x \in reserved : x.word \in Words(deliveries') => x.id < y.id
       /\ y \notin reserved => \A x \in reserved \intersect reserved' : x.position < y.position]_allVars
==============================================================================
