------------------------------ MODULE WorkItems ------------------------------
(***************************************************************************)
(* The projects and tasks of one tenant: the serial numbers they draw from *)
(* one counter per product, the trash and its purges, the conversion of a  *)
(* task into a project, and each product's roadmap.                        *)
(*                                                                         *)
(* A request is a slot.  It reads, may wait for the product's series lock, *)
(* and commits; the unique indexes decide at the commit.  An item stands   *)
(* for a piece of work and its kind for the table its row is in, so a      *)
(* conversion changes the kind.  Names, statuses, subseries and subtasks   *)
(* are left out.                                                           *)
(***************************************************************************)
EXTENDS Integers, FiniteSets, FiniteSetsExt

CONSTANTS Products,     \* products of the tenant
          Items,        \* pieces of work ever created (a bound)
          Slots,        \* requests at a time (a bound)
          Top,          \* MAX_SERIES_NUMBER, a small stand-in for 9999
          Legacy,       \* tasks from before tasks were numbered
          Ops,          \* the operations called
          Interleaved   \* FALSE: one request after the other

ASSUME ItemsAssumption == Top \in Nat /\ Legacy \subseteq Items

VARIABLES item,         \* the rows
          active,       \* the product that is active
          roadmap,      \* pairs of a product and an item on its roadmap
          slot          \* the requests in flight

vars == <<item, active, roadmap, slot>>

None == "none"
Kinds == {"none", "task", "project", "gone"}
Tags == {"untyped", "tag"}

(* Tasks have one tag; a project may have none. *)
Idle == [pc |-> "idle", op |-> None, id |-> None, prod |-> None, num |-> 0,
         tag |-> "untyped", auto |-> FALSE, held |-> {}, seen |-> {}, why |-> None]

Init ==
    /\ active \in Products
    /\ \E p \in Products :
         item = [i \in Items |-> [kind |-> IF i \in Legacy THEN "task" ELSE "none",
                                  prod |-> IF i \in Legacy THEN p ELSE None,
                                  num |-> 0, tag |-> "untyped", trashed |-> FALSE]]
    /\ roadmap = {}
    /\ slot = [s \in Slots |-> Idle]

Live(i) == item[i].kind \in {"task", "project"} /\ ~item[i].trashed
Trashed(i) == item[i].kind \in {"task", "project"} /\ item[i].trashed
LiveOf(p) == {i \in Items : Live(i) /\ item[i].prod = p}
LiveNumbers(p) == {item[i].num : i \in LiveOf(p)}

(* Mutant of SeriesFree: only the row locks, which an empty product lacks. *)
SeriesNotLocked(p) == TRUE

(***************************************************************************)
(* Locks.  The allocator holds the product's advisory lock and the rows of *)
(* the product it found; a conversion that has moved its task holds the    *)
(* row; a plan that has inserted its entry keeps the item from deletion.   *)
(***************************************************************************)
SeriesFree(p) == \A t \in Slots : ~(slot[t].auto /\ slot[t].prod = p
                                   /\ slot[t].pc \in {"numbered", "moved"})
Moving(t, i) == slot[t].pc = "moved" /\ slot[t].id = i

RowFree(s, i) == \A t \in Slots \ {s} : i \notin slot[t].held /\ ~Moving(t, i)
Unshared(i) == \A t \in Slots : ~(slot[t].pc = "inserted" /\ slot[t].id = i)

(* The unique indexes: no two live rows of one table, product, tag, number. *)
Clash(i, row) ==
    /\ row.num # 0 \/ row.kind = "project"
    /\ \E j \in Items \ {i} : Live(j) /\ item[j].kind = row.kind /\ item[j].prod = row.prod
                             /\ item[j].tag = row.tag /\ item[j].num = row.num

End(s, why) == slot' = [slot EXCEPT ![s] = [Idle EXCEPT !.why = why]]

(* A request starts in an idle slot; one at a time unless Interleaved. *)
Start(s, op, rec) ==
    /\ op \in Ops
    /\ slot[s].pc = "idle"
    /\ Interleaved \/ \A t \in Slots : slot[t].pc = "idle"
    /\ slot' = [slot EXCEPT ![s] = rec]
    /\ UNCHANGED <<item, active, roadmap>>

(* create_project and create_task without a number go to the allocator. *)
BeginCreate(s, kind, tag) ==
    /\ kind = "task" => tag = "tag"
    /\ Start(s, kind, [Idle EXCEPT !.pc = "queued", !.op = kind, !.prod = active, !.tag = tag,
                                   !.auto = TRUE])

(* create_project with a number checks its tag for a duplicate and takes no lock. *)
Taken(p, tag, n) == \E j \in LiveOf(p) : item[j].kind = "project" /\ item[j].tag = tag
                                        /\ item[j].num = n
BeginManual(s, tag, n) ==
    /\ ~Taken(active, tag, n)
    /\ Start(s, "manual", [Idle EXCEPT !.pc = "numbered", !.op = "project", !.prod = active,
                                       !.tag = tag, !.num = n])

(* update_project_metadata with a number: the check has a session of its own. *)
BeginRenumber(s, i, n) ==
    /\ Live(i) /\ item[i].kind = "project"
    /\ ~Taken(item[i].prod, item[i].tag, n)
    /\ Start(s, "renumber", [Idle EXCEPT !.pc = "numbered", !.op = "renumber", !.id = i,
                                         !.prod = item[i].prod, !.num = n])

(* Mutant of BeginRestore: a live project is given a number too. *)
RestoreAny(s, i) ==
    /\ item[i].kind = "project" \/ Trashed(i)
    /\ LET numbered == item[i].kind = "project" \/ item[i].num # 0 IN
       Start(s, "restore", [Idle EXCEPT !.pc = IF numbered THEN "queued" ELSE "numbered",
                                        !.op = "restore", !.id = i, !.prod = item[i].prod,
                                        !.auto = numbered])

(* restore_project and restore_task read the trashed row; a task from       *)
(* before the numbers keeps having none.                                    *)
BeginRestore(s, i) ==
    /\ Trashed(i)
    /\ LET numbered == item[i].kind = "project" \/ item[i].num # 0 IN
       Start(s, "restore", [Idle EXCEPT !.pc = IF numbered THEN "queued" ELSE "numbered",
                                        !.op = "restore", !.id = i, !.prod = item[i].prod,
                                        !.auto = numbered])

(***************************************************************************)
(* convert_to_project takes the task's number along and puts the project   *)
(* in the product that is active, whichever product the task is in.  The   *)
(* dashboard offers the tasks of the active product ("convert"); a page    *)
(* older than a switch of products still holds the others ("stale").       *)
(***************************************************************************)
BeginConvert(s, op, i) ==
    /\ Live(i) /\ item[i].kind = "task"
    /\ op = "convert" => item[i].prod = active
    /\ Start(s, op, [Idle EXCEPT !.pc = IF item[i].num = 0 THEN "queued" ELSE "numbered",
                                 !.op = "convert", !.id = i, !.prod = active,
                                 !.num = item[i].num, !.auto = item[i].num = 0])

(* lock_rows_for_series_shared and get_next_series_number_shared. *)
NextNumber(p) == Max(LiveNumbers(p) \union {0}) + 1

TakeNumber(s) ==
    /\ slot[s].pc = "queued"
    /\ LET p == slot[s].prod
           rows == {i \in Items : item[i].kind \in {"task", "project"} /\ item[i].prod = p} IN
       /\ SeriesFree(p)
       /\ \A i \in rows : RowFree(s, i) /\ Unshared(i)
       /\ IF NextNumber(p) > Top
          THEN End(s, "exhausted")
          ELSE slot' = [slot EXCEPT ![s].pc = "numbered", ![s].num = NextNumber(p),
                                    ![s].held = rows]
    /\ UNCHANGED <<item, active, roadmap>>

(* The insert of a new row and its commit. *)
CommitCreate(s) ==
    /\ slot[s].pc = "numbered" /\ slot[s].op \in {"task", "project"}
    /\ LET row == [kind |-> slot[s].op, prod |-> slot[s].prod, num |-> slot[s].num,
                   tag |-> slot[s].tag, trashed |-> FALSE] IN
       \E i \in Items :
         /\ item[i].kind = "none"
         /\ IF Clash(i, row)
            THEN End(s, IF slot[s].auto THEN "collided" ELSE "duplicate") /\ UNCHANGED item
            ELSE item' = [item EXCEPT ![i] = row] /\ End(s, "done")
    /\ UNCHANGED <<active, roadmap>>

(* A restore or a new number updates the row it read, or fails if it is gone. *)
CommitUpdate(s) ==
    /\ slot[s].pc = "numbered" /\ slot[s].op \in {"restore", "renumber"}
    /\ RowFree(s, slot[s].id)
    /\ LET i == slot[s].id
           row == [item[i] EXCEPT !.num = slot[s].num,
                                  !.trashed = IF slot[s].op = "restore" THEN FALSE ELSE @] IN
       IF item[i].kind = "gone" \/ (~row.trashed /\ Clash(i, row))
       THEN End(s, IF slot[s].auto /\ item[i].kind # "gone" THEN "collided" ELSE "failed")
            /\ UNCHANGED item
       ELSE item' = [item EXCEPT ![i] = row] /\ End(s, "done")
    /\ UNCHANGED <<active, roadmap>>

(* Mutant of Move: the entries are not repointed. *)
MoveOnly(s) ==
    /\ slot[s].pc = "numbered" /\ slot[s].op = "convert"
    /\ RowFree(s, slot[s].id)
    /\ slot' = [slot EXCEPT ![s].pc = IF item[slot[s].id].kind = "task" THEN "moved" ELSE "idle"]
    /\ UNCHANGED <<item, active, roadmap>>

(* The conversion inserts the project, updates the task's row and repoints  *)
(* the roadmap entries it sees.  A row that is gone fails it whole.          *)
Move(s) ==
    /\ slot[s].pc = "numbered" /\ slot[s].op = "convert"
    /\ RowFree(s, slot[s].id)
    /\ LET i == slot[s].id IN
       IF item[i].kind # "task"
       THEN End(s, "failed")
       ELSE slot' = [slot EXCEPT ![s].pc = "moved",
                                 ![s].seen = {p \in Products : <<p, i>> \in roadmap}]
    /\ UNCHANGED <<item, active, roadmap>>

(* It deletes the task, which takes along the entries that still point to it. *)
CommitConvert(s) ==
    /\ slot[s].pc = "moved"
    /\ Unshared(slot[s].id)
    /\ LET i == slot[s].id
           row == [kind |-> "project", prod |-> slot[s].prod, num |-> slot[s].num,
                   tag |-> "untyped", trashed |-> FALSE] IN
       IF Clash(i, row)
       THEN End(s, "failed") /\ UNCHANGED <<item, roadmap>>
       ELSE /\ item' = [item EXCEPT ![i] = row]
            /\ roadmap' = {e \in roadmap : e[2] = i => e[1] \in slot[s].seen}
            /\ End(s, "done")
    /\ UNCHANGED active

(* The soft deletes of a project and of a task. *)
Trash(i) ==
    /\ "trash" \in Ops
    /\ Live(i) /\ \A t \in Slots : RowFree(t, i)
    /\ Interleaved \/ \A t \in Slots : slot[t].pc = "idle"
    /\ item' = [item EXCEPT ![i].trashed = TRUE]
    /\ UNCHANGED <<active, roadmap, slot>>

(* The row and its roadmap entries go. *)
Destroy(i) ==
    /\ \A t \in Slots : RowFree(t, i)
    /\ Unshared(i)
    /\ item' = [item EXCEPT ![i].kind = "gone"]
    /\ roadmap' = {e \in roadmap : e[2] # i}
    /\ UNCHANGED active

(* The reaper of tasks reads the row again before it deletes it. *)
Reap(i) ==
    /\ "reap" \in Ops
    /\ Trashed(i) /\ item[i].kind = "task"
    /\ Interleaved \/ \A t \in Slots : slot[t].pc = "idle"
    /\ Destroy(i)
    /\ UNCHANGED slot

(* purge_all_deleted_projects lists the trash, then destroys each one it    *)
(* listed in a session of its own.                                          *)
BeginPurge(s) ==
    Start(s, "purge", [Idle EXCEPT !.pc = "listed", !.op = "purge",
                                   !.seen = {i \in Items : Trashed(i)
                                                            /\ item[i].kind = "project"}])
PurgeOne(s, i) ==
    /\ slot[s].pc = "listed" /\ i \in slot[s].seen
    /\ slot' = [slot EXCEPT ![s].seen = @ \ {i}]
    /\ IF item[i].kind = "gone" THEN UNCHANGED <<item, active, roadmap>> ELSE Destroy(i)
EndPurge(s) ==
    /\ slot[s].pc = "listed" /\ slot[s].seen = {}
    /\ End(s, "done")
    /\ UNCHANGED <<item, active, roadmap>>

(* upsert_metadata: the item must be in the active product and a task must  *)
(* not be trashed; then the entry is inserted, then the call commits.       *)
Plannable(p, i) == item[i].prod = p /\ (item[i].kind = "project" \/ (item[i].kind = "task" /\ Live(i)))
BeginPlan(s, i) ==
    /\ Plannable(active, i)
    /\ Start(s, "plan", [Idle EXCEPT !.pc = "checked", !.op = item[i].kind, !.id = i,
                                     !.prod = active])
Insert(s) ==
    /\ slot[s].pc = "checked"
    /\ \A t \in Slots : slot[s].id \notin slot[t].held
    /\ IF item[slot[s].id].kind # slot[s].op
       THEN End(s, "failed")
       ELSE slot' = [slot EXCEPT ![s].pc = "inserted"]
    /\ UNCHANGED <<item, active, roadmap>>
CommitPlan(s) ==
    /\ slot[s].pc = "inserted"
    /\ roadmap' = roadmap \union {<<slot[s].prod, slot[s].id>>}
    /\ End(s, "done")
    /\ UNCHANGED <<item, active>>

(* remove_item, and the remove list of an upsert, on the active product's   *)
(* roadmap; an entry a conversion is repointing is locked.                  *)
RemoveItem(i) ==
    /\ "remove" \in Ops
    /\ <<active, i>> \in roadmap
    /\ Interleaved \/ \A t \in Slots : slot[t].pc = "idle"
    /\ \A t \in Slots : ~Moving(t, i)
    /\ roadmap' = roadmap \ {<<active, i>>}
    /\ UNCHANGED <<item, active, slot>>

(* activate_product, of which only the choice of product matters here. *)
Switch(p) ==
    /\ "switch" \in Ops
    /\ p # active
    /\ Interleaved \/ \A t \in Slots : slot[t].pc = "idle"
    /\ active' = p
    /\ UNCHANGED <<item, roadmap, slot>>

Next ==
    \/ \E s \in Slots :
         \/ \E kind \in {"task", "project"}, tag \in Tags : BeginCreate(s, kind, tag)
         \/ \E tag \in Tags, n \in 1..Top : BeginManual(s, tag, n)
         \/ \E i \in Items, n \in 1..Top : BeginRenumber(s, i, n)
         \/ \E i \in Items : BeginRestore(s, i) \/ BeginPlan(s, i) \/ PurgeOne(s, i)
         \/ \E i \in Items, op \in {"convert", "stale"} : BeginConvert(s, op, i)
         \/ TakeNumber(s) \/ CommitCreate(s) \/ CommitUpdate(s)
         \/ Move(s) \/ CommitConvert(s)
         \/ BeginPurge(s) \/ EndPurge(s)
         \/ Insert(s) \/ CommitPlan(s)
    \/ \E i \in Items : Trash(i) \/ Reap(i) \/ RemoveItem(i)
    \/ \E p \in Products : Switch(p)

Spec == Init /\ [][Next]_vars

-----------------------------------------------------------------------------
(***************************************************************************)
(* Properties.                                                             *)
(***************************************************************************)

(* Every variable has the values the code gives it. *)
TypeOK ==
    /\ item \in [Items -> [kind : Kinds, prod : Products \union {None}, num : 0..Top,
                           tag : Tags, trashed : BOOLEAN]]
    /\ active \in Products
    /\ roadmap \subseteq Products \X Items
    /\ \A s \in Slots :
         /\ slot[s].pc \in {"idle", "queued", "numbered", "moved", "listed", "checked", "inserted"}
         /\ slot[s].id \in Items \union {None}
         /\ slot[s].prod \in Products \union {None}
         /\ slot[s].num \in 0..Top
         /\ slot[s].held \subseteq Items

(* Tasks and projects of a product draw from one counter: as long as nobody *)
(* picks a number by hand, no two that are not in the trash share one,       *)
(* whatever is trashed, restored, converted or purged meanwhile.             *)
OneCounter ==
    \A i, j \in Items :
        i # j /\ Live(i) /\ Live(j) /\ item[i].prod = item[j].prod /\ item[i].num # 0
            => item[i].num # item[j].num

(* A caller that leaves the number to the allocator is never told that the  *)
(* number is in use.                                                        *)
AutoNeverCollides == \A s \in Slots : slot[s].why # "collided"

(* An item that is not in the trash before or after a step keeps its number  *)
(* unless somebody asked for another one.                                    *)
LiveKeepsNumber ==
    [][\A i \in Items :
         Live(i) /\ Live(i)' /\ item[i].kind = item[i].kind' /\ item[i].num # item[i].num'
             => \E s \in Slots : slot[s].op = "renumber" /\ slot[s].id = i]_vars

(* What is on a product's roadmap is a project or a task of that product.    *)
RoadmapOwn == \A e \in roadmap : item[e[2]].prod = e[1]

(* An entry leaves a roadmap because it is removed or because its work is    *)
(* destroyed; the conversion of a task keeps it.                             *)
RoadmapKept ==
    [][\A e \in roadmap \ roadmap' :
         item[e[2]].kind' = "gone" \/ item' = item]_vars

(* Only what is in the trash when it happens is destroyed.                   *)
PurgedFromTrash ==
    [][\A i \in Items : item[i].kind' = "gone" /\ item[i].kind # "gone" => Trashed(i)]_vars

(* An allocation is refused as exhausted only when every number is used.     *)
ExhaustedWhenUsed ==
    [][\A s \in Slots :
         slot[s].pc = "queued" /\ slot[s].why' = "exhausted"
             => 1..Top \subseteq LiveNumbers(slot[s].prod)]_vars
=============================================================================
