---------------------------- MODULE AuthoringStore ----------------------------
(***************************************************************************)
(* The owner's authoring store (evals/authoring/store.ts and records.ts)   *)
(* behind its form (server.ts) and its recovery command                    *)
(* (evals/private-authoring.ts).  A workspace of labelled cases is loaded, *)
(* changed and replaced under the write lock; a freeze copies its assigned *)
(* cases to an immutable version under the freeze lock as well.            *)
(*                                                                         *)
(* A save sends a firm label or a draft.  A firm save approves exactly its *)
(* content, so a row is approved iff it is firm; the content's reason,     *)
(* finding and provenance decide nothing here.                             *)
(***************************************************************************)
EXTENDS FileLock, FiniteSets, Functions

CONSTANTS Cases,        \* case ids
          Words,        \* headwords
          Groups,       \* the owner's variant groups
          Normalized,   \* [Words -> STRING]: "" when no letter is left
          Versions,     \* version numbers the owner asks for
          MaxRevision   \* bound: saved workspaces

ASSUME AuthoringAssumption == /\ Locks = {".write-lock", ".freeze-lock"}
                              /\ IsFiniteSet(Cases)
                              /\ MaxRevision \in Nat

VARIABLES workspace,    \* the decrypted workspace.age
          frozen,       \* [subset of Versions -> frozen dataset]
          tab,          \* [Tabs -> the command a tab's request executes]
          form,         \* [Tabs -> the revision its page shows]
          exposed       \* history: keys of every case whose answers were seen

authoringVars == <<workspace, frozen, tab, form, exposed>>
storeVars == <<lockVars, authoringVars>>

Splits == {"none", "development", "held-out"}
Rows == [word : Words, group : Groups, inspected : BOOLEAN, firm : BOOLEAN, split : Splits]
History == Cases \X Words \X Groups
IsWorkspace(w) == /\ w.revision \in 0 .. MaxRevision
                  /\ DOMAIN w.rows \subseteq Cases
                  /\ \A c \in DOMAIN w.rows : w.rows[c] \in Rows
                  /\ w.history \subseteq History
NoWorkspace == [revision |-> 0, rows |-> <<>>, history |-> {}]
Idle == [at |-> "idle", lock |-> ".write-lock", next |-> NoWorkspace, version |-> 0]

-----------------------------------------------------------------------------
(* records.ts: what connects cases.                                        *)

Keys(c, w, g) == {<<"case", c>>, <<"group", g>>}
                   \cup (IF Normalized[w] = "" THEN {} ELSE {<<"word", Normalized[w]>>})
RowKeys(w, c) == Keys(c, w.rows[c].word, w.rows[c].group)
ItemKeys(h) == Keys(h[1], h[2], h[3])

(* Every row and every remembered triple connects its own keys. *)
Links(w) == {RowKeys(w, c) : c \in DOMAIN w.rows} \cup {ItemKeys(h) : h \in w.history}

(* Everything connected to the keys in seed. *)
Connected(links, seed) ==
  LET grow[n \in 0 .. Cardinality(links)] ==
        IF n = 0 THEN seed
        ELSE LET reached == grow[n - 1]
             IN  reached \cup UNION {l \in links : l \cap reached # {}}
  IN  grow[Cardinality(links)]

Flagged(w) == UNION {RowKeys(w, c) : c \in {d \in DOMAIN w.rows : w.rows[d].inspected}}
Inspected(w) == Connected(Links(w), Flagged(w) \cup UNION {ItemKeys(h) : h \in w.history})

inspectionRestricted(w) ==
  LET seen == Inspected(w) IN {c \in DOMAIN w.rows : RowKeys(w, c) \cap seen # {}}

Triple(w, c) == <<c, w.rows[c].word, w.rows[c].group>>
\* Mutant: only the flagged cases are remembered, not the ones they expose.
RememberFlagged(w) ==
  [w EXCEPT !.history = @ \cup {Triple(w, c) : c \in {d \in DOMAIN w.rows : w.rows[d].inspected}}]

rememberInspection(w) ==
  [w EXCEPT !.history = @ \cup {Triple(w, c) : c \in inspectionRestricted(w)}]

validateWorkspace(w) ==
  LET assigned == {c \in DOMAIN w.rows : w.rows[c].split # "none"}
  IN  /\ \A c \in assigned : w.rows[c].firm
      /\ \A c \in inspectionRestricted(w) : w.rows[c].split # "held-out"
      /\ \A c, d \in assigned :
           RowKeys(w, d) \cap Connected(Links(w), RowKeys(w, c)) # {} => w.rows[c].split = w.rows[d].split

-----------------------------------------------------------------------------
(* store.ts: what a command makes of the workspace.                        *)

Revised(w) == [rememberInspection(w) EXCEPT !.revision = @ + 1]

(* save: a new case or a new content, with the split the form sends: none  *)
(* for a draft.  The form cannot untick an inspection.                     *)
Saved(w) ==
  LET before == rememberInspection(w)
  IN  {Revised([before EXCEPT !.rows = [d \in DOMAIN @ \cup {c} |-> IF d = c THEN row ELSE @[d]]]) :
         c \in Cases,
         row \in {r \in Rows : /\ ~r.firm => r.split = "none"
                               /\ r.inspected => r.split # "held-out"}}

Keeps(w, next) == \A c \in DOMAIN w.rows : w.rows[c].inspected => next.rows[c].inspected

(* splits: every assigned case is approved, and held out only unseen.      *)
Moved(w) ==
  {Revised([w EXCEPT !.rows = [c \in DOMAIN @ |-> IF c \in DOMAIN move THEN [@[c] EXCEPT !.split = move[c]] ELSE @[c]]]) :
     move \in UNION {[D -> {"development", "held-out"}] :
                       D \in (SUBSET {c \in DOMAIN w.rows : w.rows[c].firm}) \ {{}}}}

\* Mutant: a change is saved without being validated as a whole.
Unvalidated(w) == {next \in Saved(w) \cup Moved(w) : Keeps(w, next)}

Edited(w) == {next \in Saved(w) \cup Moved(w) : Keeps(w, next) /\ validateWorkspace(next)}

(* freeze: the assigned cases; the owner may leave the others out.         *)
Frozen(w) == [rows |-> Restrict(w.rows, {c \in DOMAIN w.rows : w.rows[c].split # "none"}),
              history |-> w.history]

(* loadFrozenDataset of the staged version, before it is renamed.          *)
Loadable(f) == validateWorkspace([revision |-> 0, rows |-> f.rows, history |-> f.history])

-----------------------------------------------------------------------------
(* The command of a tab, one action per await of withFileLock and execute. *)

(* Types of the variables; what is saved can be loaded again: load and      *)
(* execute validate the same workspace.                                    *)
StoreTypeOK ==
  /\ LockTypeOK
  /\ IsWorkspace(workspace) /\ validateWorkspace(workspace)
  /\ DOMAIN frozen \subseteq Versions
  /\ \A t \in Tabs : /\ tab[t].at \in {"idle", "guarded", "created", "working", "staged", "leaving",
                                       "comparing", "recovering", "inspecting", "removing"}
                     /\ tab[t].lock \in Locks
                     /\ form[t] \in 0 .. workspace.revision

StoreInit == /\ LockInit
             /\ workspace = NoWorkspace
             /\ frozen = <<>>
             /\ tab = [t \in Tabs |-> Idle]
             /\ form = [t \in Tabs |-> 0]
             /\ exposed = {}

Goes(t, at) == tab' = [tab EXCEPT ![t].at = at]
Leaves(t) == tab' = [tab EXCEPT ![t] = [Idle EXCEPT !.at = "leaving", !.lock = tab[t].lock]]

(* The response: a page with the current revision. *)
Respond(t) == /\ tab' = [tab EXCEPT ![t] = Idle]
              /\ form' = [form EXCEPT ![t] = workspace.revision]

(* A lock is not obtained, or is released: the freeze lock returns to the  *)
(* write lock around it, and the write lock to the form.                   *)
Return(t) == IF tab[t].lock = ".freeze-lock"
             THEN /\ tab' = [tab EXCEPT ![t] = [Idle EXCEPT !.at = "leaving"]]
                  /\ UNCHANGED form
             ELSE Respond(t)

(* The form is loaded again. *)
Show(t) == /\ tab[t] = Idle
           /\ form' = [form EXCEPT ![t] = workspace.revision]
           /\ UNCHANGED <<lockVars, workspace, frozen, tab, exposed>>

Ask(t) == /\ tab[t] = Idle
          /\ EnterGuard(".write-lock")
          /\ Goes(t, "guarded")
          /\ UNCHANGED <<workspace, frozen, form, exposed>>

Acquire(t) == /\ tab[t].at = "guarded"
              /\ \/ Create(tab[t].lock) /\ Goes(t, "created") /\ UNCHANGED form
                 \/ CreateRefused(tab[t].lock) /\ Return(t)
              /\ UNCHANGED <<workspace, frozen, exposed>>

WriteOwnership(t) == /\ tab[t].at = "created"
                     /\ \/ Sign(tab[t].lock, t) /\ Goes(t, "working") /\ UNCHANGED form
                        \/ SignFailed(tab[t].lock) /\ Return(t)
                     /\ UNCHANGED <<workspace, frozen, exposed>>

(* Work ends with an error: revision_conflict, a refused content, a busy   *)
(* freeze lock, an existing version, a failed write.                       *)
Refuse(t) == /\ tab[t].at \in {"working", "staged"}
             /\ Leaves(t)
             /\ UNCHANGED <<lockVars, workspace, frozen, form, exposed>>

Current(t) == form[t] = workspace.revision

(* save and splits: load, change, encrypt and fsync the temporary file.    *)
Stage(t) == /\ tab[t].at = "working" /\ tab[t].lock = ".write-lock"
            /\ Current(t)
            /\ workspace.revision < MaxRevision
            /\ \E next \in Edited(workspace) :
                 tab' = [tab EXCEPT ![t].at = "staged", ![t].next = next]
            /\ UNCHANGED <<lockVars, workspace, frozen, form, exposed>>

Replace(t) == /\ tab[t].at = "staged" /\ tab[t].lock = ".write-lock"
              /\ workspace' = tab[t].next
              /\ exposed' = Connected(Links(workspace'), exposed \cup Flagged(workspace'))
              /\ Leaves(t)
              /\ UNCHANGED <<lockVars, frozen, form>>

AskFreeze(t) == /\ tab[t].at = "working" /\ tab[t].lock = ".write-lock"
                /\ Current(t)
                /\ validateWorkspace(workspace)
                /\ DOMAIN Frozen(workspace).rows # {}
                /\ EnterGuard(".freeze-lock")
                /\ tab' = [tab EXCEPT ![t].at = "guarded", ![t].lock = ".freeze-lock", ![t].next = workspace]
                /\ UNCHANGED <<workspace, frozen, form, exposed>>

StageFreeze(t) == /\ tab[t].at = "working" /\ tab[t].lock = ".freeze-lock"
                  /\ Loadable(Frozen(tab[t].next))
                  /\ \E v \in Versions \ DOMAIN frozen :
                       tab' = [tab EXCEPT ![t].at = "staged", ![t].version = v]
                  /\ UNCHANGED <<lockVars, workspace, frozen, form, exposed>>

Freeze(t) == /\ tab[t].at = "staged" /\ tab[t].lock = ".freeze-lock"
             /\ frozen' = [v \in DOMAIN frozen \cup {tab[t].version} |->
                             IF v = tab[t].version THEN Frozen(tab[t].next) ELSE frozen[v]]
             /\ Leaves(t)
             /\ UNCHANGED <<lockVars, workspace, form, exposed>>

(* The release enters the guard, or gives up behind a guard that stays.    *)
Leave(t) == /\ tab[t].at = "leaving"
            /\ \/ EnterGuard(tab[t].lock) /\ Goes(t, "comparing") /\ UNCHANGED form
               \/ guard[tab[t].lock] /\ Return(t) /\ UNCHANGED lockVars
            /\ UNCHANGED <<workspace, frozen, exposed>>

Unlock(t) == /\ tab[t].at = "comparing"
             /\ Remove(tab[t].lock, t)
             /\ Return(t)
             /\ UNCHANGED <<workspace, frozen, exposed>>

(* The recovery command: the write lock, then the freeze lock. *)
Recover(t) == /\ tab[t] = Idle
              /\ tab' = [tab EXCEPT ![t].at = "recovering"]
              /\ UNCHANGED <<lockVars, workspace, frozen, form, exposed>>

EnterRecovery(t) == /\ tab[t].at = "recovering"
                    /\ \/ EnterGuard(tab[t].lock) /\ Goes(t, "inspecting") /\ UNCHANGED form
                       \/ guard[tab[t].lock] /\ Respond(t) /\ UNCHANGED lockVars
                    /\ UNCHANGED <<workspace, frozen, exposed>>

NextRecovery(t) == IF tab[t].lock = ".write-lock"
                   THEN /\ tab' = [tab EXCEPT ![t].at = "recovering", ![t].lock = ".freeze-lock"]
                        /\ UNCHANGED form
                   ELSE Respond(t)

Inspect(t) == /\ tab[t].at = "inspecting"
              /\ \/ Recoverable(tab[t].lock) /\ Goes(t, "removing") /\ UNCHANGED <<lockVars, form>>
                 \/ /\ lock[tab[t].lock] = Absent
                    /\ NextRecovery(t)
                    /\ LeaveGuard(tab[t].lock) /\ UNCHANGED <<lock, life>>
                 \/ /\ lock[tab[t].lock] # Absent
                    /\ Respond(t)
                    /\ LeaveGuard(tab[t].lock) /\ UNCHANGED <<lock, life>>
              /\ UNCHANGED <<workspace, frozen, exposed>>

RemoveLock(t) == /\ tab[t].at = "removing"
                 /\ RemoveStopped(tab[t].lock)
                 /\ NextRecovery(t)
                 /\ UNCHANGED <<workspace, frozen, exposed>>

(* The process of a tab dies anywhere and is started again. *)
Crash(t) == /\ tab[t] # Idle
            /\ Restart(t)
            /\ Respond(t)
            /\ UNCHANGED <<workspace, frozen, exposed>>

ClearGuard(n) == /\ \A t \in Tabs : tab[t] = Idle
                 /\ RemoveGuard(n)
                 /\ UNCHANGED authoringVars

Command(t) == \/ Show(t) \/ Ask(t) \/ Acquire(t) \/ WriteOwnership(t) \/ Refuse(t)
              \/ Stage(t) \/ Replace(t) \/ AskFreeze(t) \/ StageFreeze(t) \/ Freeze(t)
              \/ Leave(t) \/ Unlock(t)
Recovery(t) == Recover(t) \/ EnterRecovery(t) \/ Inspect(t) \/ RemoveLock(t)

StoreNext == (\E t \in Tabs : Command(t) \/ Recovery(t) \/ Crash(t)) \/ (\E n \in Locks : ClearGuard(n))

-----------------------------------------------------------------------------
(* Held-out cases are unseen: no case of a held-out split, in the saved    *)
(* workspace, ever had a connection to a case whose model answers were     *)
(* inspected, through whatever words, groups and cases they had then       *)
(* (records.ts, rememberInspection; docs/private-authoring.md).            *)
UnseenHeldOut ==
  \A c \in DOMAIN workspace.rows :
    workspace.rows[c].split = "held-out" => RowKeys(workspace, c) \cap exposed = {}

(* Two tabs or processes cannot overwrite each other: what replaces the    *)
(* workspace is its next revision, made from a page that showed the one    *)
(* it replaces; a version, once frozen, never changes, and holds the       *)
(* assigned cases of the workspace that is saved as it appears             *)
(* (store.ts execute under withFileLock).                                  *)
AtomicEdits ==
  [][/\ workspace' # workspace =>
          /\ workspace'.revision = workspace.revision + 1
          /\ \E t \in Tabs : /\ tab[t].at = "staged" /\ tab[t].next = workspace'
                             /\ form[t] = workspace.revision
     /\ \A v \in DOMAIN frozen : v \in DOMAIN frozen' /\ frozen'[v] = frozen[v]
     /\ \A v \in DOMAIN frozen' \ DOMAIN frozen : frozen'[v] = Frozen(workspace)]_storeVars
===============================================================================
