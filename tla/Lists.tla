-------------------------------- MODULE Lists --------------------------------
(***************************************************************************)
(* The linked lists of libft (ft_lst*.c): one list is built, gone through, *)
(* copied with ft_lstmap and deleted, while malloc may fail.  The calls    *)
(* that go over a list make one step per element; the recursion of         *)
(* ft_lstdel is the stack of its arguments.                                *)
(*                                                                         *)
(* A node that is free has no value; `of` is the element whose content it  *)
(* holds.                                                                  *)
(***************************************************************************)
EXTENDS Naturals, SequencesExt, FiniteSets

CONSTANTS
  Node,       \* the nodes the heap has room for
  NULL,
  MaxFailed   \* bound on the calls of malloc that fail

VARIABLES
  heap,        \* [of, next] for every node that is allocated
  ptr,         \* the program's pointers: its list, its copy, a node in no list
  pc,          \* "idle", the call in progress, or "crashed"
  lst, prev,   \* cursors of ft_lstiter and ft_lstmap
  first,       \* the copy under construction
  stack,       \* the nodes of the calls of ft_lstdel, the outermost first
  deleting,    \* which list is being deleted
  whole,       \* history: the nodes it had
  visited,     \* history: the elements f or del was called with
  lost,        \* history: the nodes a failed call left behind
  failed       \* how many calls of malloc have failed

vars == <<heap, ptr, pc, lst, prev, first, stack, deleting, whole, visited, lost,
          failed>>
cursors == <<lst, prev, first, stack, deleting, whole>>

Live == DOMAIN heap
Put(h, n, rec) == [m \in DOMAIN h \cup {n} |-> IF m = n THEN rec ELSE h[m]]
Free(h, n) == [m \in DOMAIN h \ {n} |-> h[m]]

(* The nodes from p on, in their order.                                    *)
After(h, p) == IF p = NULL THEN NULL ELSE h[p].next
Path(h, p) ==
  LET f[k \in 0 .. Cardinality(Node)] == IF k = 0 THEN p ELSE After(h, f[k - 1])
  IN  [k \in 1 .. Min({n \in 0 .. Cardinality(Node) : f[n] = NULL}) |-> f[k - 1]]

Init ==
  /\ heap = << >> /\ ptr = [l \in {"list", "copy", "fresh"} |-> NULL]
  /\ pc = "idle" /\ lst = NULL /\ prev = NULL /\ first = NULL
  /\ stack = << >> /\ deleting = "list" /\ whole = << >>
  /\ visited = << >> /\ lost = {} /\ failed = 0

MallocFails == failed < MaxFailed /\ failed' = failed + 1
MallocWorks(n) == n \notin Live /\ UNCHANGED failed

(* The node is not freed when there is no room for its content.            *)
ft_lstnew ==
  /\ pc = "idle" /\ ptr["fresh"] = NULL
  /\ \/ MallocFails /\ UNCHANGED <<heap, ptr, lost>>
     \/ \E n \in Node \ Live :
          /\ heap' = Put(heap, n, [of |-> n, next |-> NULL])
          /\ \/ MallocWorks(n) /\ ptr' = [ptr EXCEPT !["fresh"] = n] /\ UNCHANGED lost
             \/ MallocFails /\ lost' = lost \cup {n} /\ UNCHANGED ptr
  /\ UNCHANGED <<pc, cursors, visited>>

ft_lstadd ==
  /\ pc = "idle" /\ ptr["fresh"] # NULL
  /\ heap' = [heap EXCEPT ![ptr["fresh"]].next = ptr["list"]]
  /\ ptr' = [ptr EXCEPT !["list"] = ptr["fresh"], !["fresh"] = NULL]
  /\ UNCHANGED <<pc, cursors, visited, lost, failed>>

ft_lstdelone ==
  /\ pc = "idle" /\ ptr["fresh"] # NULL
  /\ heap' = Free(heap, ptr["fresh"]) /\ ptr' = [ptr EXCEPT !["fresh"] = NULL]
  /\ UNCHANGED <<pc, cursors, visited, lost, failed>>
-----------------------------------------------------------------------------
(* ft_lstiter: f is called before the first test.                          *)
StartIter ==
  /\ pc = "idle" /\ ptr["list"] # NULL
  /\ pc' = "iter" /\ lst' = ptr["list"] /\ visited' = <<lst'>>
  /\ UNCHANGED <<heap, ptr, prev, first, stack, deleting, whole, lost, failed>>

Iter ==
  /\ pc = "iter"
  /\ lst' = heap[lst].next
  /\ IF lst' = NULL THEN pc' = "idle" /\ UNCHANGED visited
     ELSE visited' = Append(visited, lst') /\ UNCHANGED pc
  /\ UNCHANGED <<heap, ptr, prev, first, stack, deleting, whole, lost, failed>>

(* f(elem), the caller's function: a new node with the content of elem,    *)
(* and whatever next it leaves there.                                      *)
Copied(n, elem) ==
  /\ MallocWorks(n)
  /\ \E next \in {NULL, elem} : heap' = Put(heap, n, [of |-> elem, next |-> next])

(* The first result is not looked at before it is written to.              *)
StartMap ==
  /\ pc = "idle" /\ ptr["list"] # NULL /\ ptr["copy"] = NULL
  /\ \/ MallocFails /\ pc' = "crashed" /\ UNCHANGED <<heap, first, prev, lst>>
     \/ \E n \in Node \ Live :
          /\ Copied(n, ptr["list"])
          /\ pc' = "map" /\ first' = n /\ prev' = n /\ lst' = ptr["list"]
  /\ UNCHANGED <<ptr, stack, deleting, whole, visited, lost>>

(* A wrong turn: f is called with the element it has just copied.          *)
MapSame ==
  /\ pc = "map" /\ heap[lst].next # NULL
  /\ \E n \in Node \ Live :
       /\ MallocWorks(n)
       /\ heap' = Put([heap EXCEPT ![prev].next = n], n, [of |-> lst, next |-> NULL])
       /\ prev' = n /\ lst' = heap[lst].next
  /\ UNCHANGED <<pc, first, lost, ptr, stack, deleting, whole, visited>>

(* When f fails, the nodes copied so far are left behind.                  *)
Map ==
  /\ pc = "map" /\ heap[lst].next # NULL
  /\ \/ /\ MallocFails
        /\ heap' = [heap EXCEPT ![prev].next = NULL]
        /\ lost' = lost \cup ToSet(Path(heap', first))
        /\ pc' = "idle" /\ first' = NULL /\ prev' = NULL /\ lst' = NULL
     \/ \E n \in Node \ Live, next \in {NULL, heap[lst].next} :
          /\ MallocWorks(n)
          /\ heap' = Put([heap EXCEPT ![prev].next = n], n, [of |-> heap[lst].next, next |-> next])
          /\ prev' = n /\ lst' = heap[lst].next
          /\ UNCHANGED <<pc, first, lost>>
  /\ UNCHANGED <<ptr, stack, deleting, whole, visited>>

(* A wrong end: the last node keeps what f left in it.                     *)
EndMapOpen ==
  /\ pc = "map" /\ heap[lst].next = NULL
  /\ ptr' = [ptr EXCEPT !["copy"] = first] /\ pc' = "idle"
  /\ first' = NULL /\ prev' = NULL /\ lst' = NULL
  /\ UNCHANGED <<heap, stack, deleting, whole, visited, lost, failed>>

EndMap ==
  /\ pc = "map" /\ heap[lst].next = NULL
  /\ heap' = [heap EXCEPT ![prev].next = NULL]
  /\ ptr' = [ptr EXCEPT !["copy"] = first] /\ pc' = "idle"
  /\ first' = NULL /\ prev' = NULL /\ lst' = NULL
  /\ UNCHANGED <<stack, deleting, whole, visited, lost, failed>>
-----------------------------------------------------------------------------
StartDel(l) ==
  /\ pc = "idle" /\ ptr[l] # NULL
  /\ pc' = "down" /\ deleting' = l /\ stack' = <<ptr[l]>> /\ visited' = << >>
  /\ whole' = Path(heap, ptr[l])
  /\ UNCHANGED <<heap, ptr, lst, prev, first, lost, failed>>

(* node is the next of the one given; if there is one, it goes first.      *)
DelDown ==
  /\ pc = "down"
  /\ LET node == heap[Last(stack)].next
     IN  IF node # NULL THEN stack' = Append(stack, node) /\ UNCHANGED pc
         ELSE pc' = "up" /\ UNCHANGED stack
  /\ UNCHANGED <<heap, ptr, lst, prev, first, deleting, whole, visited, lost, failed>>

(* A wrong return: the outermost pointer is not cleared.                   *)
DelUpDangling ==
  /\ pc = "up"
  /\ visited' = Append(visited, Last(stack)) /\ heap' = Free(heap, Last(stack))
  /\ stack' = Front(stack)
  /\ pc' = IF Len(stack) = 1 THEN "idle" ELSE "up"
  /\ UNCHANGED <<ptr, lst, prev, first, deleting, whole, lost, failed>>

(* A wrong order: ft_lstdelone before the recursion.                       *)
DelUpFirst ==
  /\ pc = "up"
  /\ visited' = Append(visited, Head(stack)) /\ heap' = Free(heap, Head(stack))
  /\ stack' = Tail(stack)
  /\ IF Len(stack) = 1 THEN pc' = "idle" /\ ptr' = [ptr EXCEPT ![deleting] = NULL]
     ELSE UNCHANGED <<pc, ptr>>
  /\ UNCHANGED <<lst, prev, first, deleting, whole, lost, failed>>

(* ft_lstdelone on the way back.                                           *)
DelUp ==
  /\ pc = "up"
  /\ visited' = Append(visited, Last(stack)) /\ heap' = Free(heap, Last(stack))
  /\ stack' = Front(stack)
  /\ IF Len(stack) = 1 THEN pc' = "idle" /\ ptr' = [ptr EXCEPT ![deleting] = NULL]
     ELSE UNCHANGED <<pc, ptr>>
  /\ UNCHANGED <<lst, prev, first, deleting, whole, lost, failed>>

Next ==
  \/ ft_lstnew \/ ft_lstadd \/ ft_lstdelone
  \/ StartIter \/ Iter
  \/ StartMap \/ Map \/ EndMap
  \/ \E l \in {"list", "copy"} : StartDel(l)
  \/ DelDown \/ DelUp

Spec == Init /\ [][Next]_vars
-----------------------------------------------------------------------------
Held(l) == Path(heap, ptr[l])

(* Nothing freed is in reach: between two calls every pointer, and every   *)
(* next of a node, leads to a node that is allocated.                      *)
NoDangling ==
  pc = "idle" => /\ \A l \in DOMAIN ptr : ptr[l] \in Live \cup {NULL}
                 /\ \A n \in Live : heap[n].next \in Live \cup {NULL}

(* Every node allocated belongs to exactly one list, or was left behind by *)
(* a call that failed; without a failure of malloc, none is lost.          *)
AllAccountedFor ==
  pc = "idle" =>
    /\ Len(Held("list")) + Len(Held("copy")) + Len(Held("fresh")) + Cardinality(lost)
         = Cardinality(Live)
    /\ Live = lost \cup UNION {ToSet(Held(l)) : l \in DOMAIN ptr}
    /\ failed = 0 => lost = {}

(* When ft_lstmap has returned a list, it has one node for each element,   *)
(* in the order of the elements, none of them shared with the old list,    *)
(* whatever next the caller's function left in its nodes.                  *)
CopyMatches ==
  LET old == Path(heap, ptr["list"])
      new == Path(heap', ptr'["copy"])
  IN  /\ Len(new) = Len(old)
      /\ \A k \in DOMAIN new : heap'[new[k]].of = old[k] /\ new[k] \notin ToSet(old)

(* ft_lstiter calls f once for each element, from the first to the last;   *)
(* ft_lstdel calls del once for each, from the last to the first, so that  *)
(* none loses the node that leads to it.                                   *)
EachOnceInOrder ==
  /\ pc = "iter" => /\ IsPrefix(visited, Held("list"))
                    /\ heap[lst].next = NULL => visited = Held("list")
  /\ pc = "up" => stack \o Reverse(visited) = whole

(* What a step of the lists must leave behind: nothing dangling, nothing   *)
(* lost, each element once, and a copy that is one.                        *)
StepKeepsLists ==
  NoDangling' /\ AllAccountedFor' /\ EachOnceInOrder' /\ (EndMap => CopyMatches)
=============================================================================
