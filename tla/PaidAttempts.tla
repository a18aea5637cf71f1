---------------------------- MODULE PaidAttempts ----------------------------
(***************************************************************************)
(* What the stage executor promises of attempts, whatever its rows, its    *)
(* ledger and its processes go through: a request is sent at most once and *)
(* only for an undecided attempt whose earlier requests may all be retried *)
(* and are accounted for; the attempt has an allowance of requests and is  *)
(* decided once; a verdict on a reply needs a request that may not be      *)
(* retried and, where interpreting it waits for accounting, is accounted   *)
(* for.                                                                    *)
(***************************************************************************)
EXTENDS Integers, FiniteSets

CONSTANTS Attempts, MaxRequests, MaxRetries,
          Luna          \* a reply is interpreted once it is accounted for

VARIABLES sent,         \* requests that left for the provider
          retryable,    \* those whose saved reply permits another
          accounted,    \* those whose charge is settled or known to be unknown
          verdict       \* each attempt's outcome

paidVars == <<sent, retryable, accounted, verdict>>

Verdicts == {"valid", "invalid", "failed", "uncertain", "response_lost", "verification_unresolved"}
ByReply == {"valid", "invalid", "verification_unresolved"}

Of(a) == {r \in sent : r[1] = a}

Init == /\ sent = {}
        /\ retryable = {}
        /\ accounted = {}
        /\ verdict = [a \in Attempts |-> "pending"]

Send(a, n) == /\ verdict[a] = "pending"
              /\ <<a, n>> \notin sent
              /\ Of(a) \subseteq retryable \cap accounted
              /\ Cardinality(Of(a)) <= MaxRetries
              /\ sent' = sent \cup {<<a, n>>}
              /\ UNCHANGED <<retryable, accounted, verdict>>

(* A reply may come back after its attempt was given up, but not after a   *)
(* verdict on a reply.                                                     *)
PermitRetry(r) == /\ r \in sent \ retryable
                  /\ verdict[r[1]] \notin ByReply
                  /\ retryable' = retryable \cup {r}
                  /\ UNCHANGED <<sent, accounted, verdict>>

Account(r) == /\ r \in sent \ accounted
              /\ accounted' = accounted \cup {r}
              /\ UNCHANGED <<sent, retryable, verdict>>

Decide(a, v) == /\ verdict[a] = "pending"
                /\ v \in ByReply => \E r \in Of(a) \ retryable : Luna => r \in accounted
                /\ verdict' = [verdict EXCEPT ![a] = v]
                /\ UNCHANGED <<sent, retryable, accounted>>

Next == \/ \E a \in Attempts, n \in 1 .. MaxRequests : Send(a, n)
        \/ \E r \in sent : PermitRetry(r) \/ Account(r)
        \/ \E a \in Attempts, v \in Verdicts : Decide(a, v)

Spec == Init /\ [][Next]_paidVars
=============================================================================
