------------------------------ MODULE LispHeap ------------------------------
(***************************************************************************)
(* Cells, allocator and mark-sweep collector of the combined Lisp suite    *)
(* (heap.h, gc.h), under the evaluator that uses them.  A word is the      *)
(* number the C code holds: payload * 4 + tag, so that a link of the free  *)
(* list, a bare cell index, can be taken for a tagged value as in the C    *)
(* code.  The C stack is scanned word by word; what a returned function    *)
(* left there is found again in the uninitialized locals of the next one.  *)
(***************************************************************************)
EXTENDS Integers, Sequences, SequencesExt

CONSTANTS
  HEAP_SIZE,      \* 32768 in the code
  MAX_GC_ROOTS,   \* 256 in the code
  StackSize,      \* bound: words of the C stack; the code does not check it
  MaxWrites       \* bound: cells allocated or changed

ASSUME LispHeapAssumption ==
  /\ HEAP_SIZE \in Nat /\ HEAP_SIZE > 0
  /\ MAX_GC_ROOTS \in Nat /\ StackSize \in Nat /\ MaxWrites \in Nat

VARIABLES
  mode,           \* "run", "panic": halted by an error, "oom": out of memory,
                  \* "stray": a mark was written outside of heap_mark
  heap,           \* heap_car, heap_cdr, heap_next and free_list
  global_env,
  gc_roots,       \* also stands for wind_after, catch_tags and catch_vals
  stack, sp,      \* C stack above its captured start, used below sp
  live,           \* history: slots of the stack that were written in this call
  writes

roots == <<global_env, gc_roots>>
vars == <<mode, heap, roots, stack, sp, live, writes>>

-----------------------------------------------------------------------------
(* Words *)

Cells == 0 .. HEAP_SIZE - 1
NIL_VAL == 2
ETYPE_CLOSURE == 4
TAG_CONS == 1
TAG_EXTENDED == 3
Tagged(i, tag) == 4 * i + tag
MAKE_CONS(i) == Tagged(i, TAG_CONS)
MAKE_EXTENDED(i) == Tagged(i, TAG_EXTENDED)

IS_CONS(w) == w % 4 = TAG_CONS
IS_EXTENDED(w) == w % 4 = TAG_EXTENDED
IsPointer(w) == IS_CONS(w) \/ IS_EXTENDED(w)
PTR_IDX(w) == w \div 4

Words == {NIL_VAL, ETYPE_CLOSURE} \cup {MAKE_CONS(i) : i \in Cells}
           \cup {MAKE_EXTENDED(i) : i \in Cells}
Links == Cells \cup {-1}

\* The cells that words point to, and those reached from them: the least set
\* that holds the former and what its own cells point to.
PointedTo(ws) == {PTR_IDX(w) : w \in {v \in ws : IsPointer(v)}}
Contents(h, cells) == {h.car[i] : i \in cells} \cup {h.cdr[i] : i \in cells}
Within(w, set) == IsPointer(w) => PTR_IDX(w) \in set \cup {-1}
IsClosed(h, set) == \A i \in set : Within(h.car[i], set) /\ Within(h.cdr[i], set)
Reachable(h, ws) ==
  LET around == {set \in SUBSET Cells : (\A w \in ws : Within(w, set)) /\ IsClosed(h, set)}
  IN {i \in Cells : \A set \in around : i \in set}

\* What the program may still use.
LiveRoots ==
  {global_env} \cup ToSet(gc_roots) \cup {stack[k] : k \in live}
LiveCells == Reachable(heap, LiveRoots)

\* What one expression of the C code can get at: a root, a field of a cons, the
\* data of a closure (its type is no value).
Operands ==
  LET conses == {w \in LiveRoots : IS_CONS(w)}
      closures == {w \in LiveRoots : IS_EXTENDED(w)}
  IN {NIL_VAL} \cup LiveRoots \cup Contents(heap, PointedTo(conses))
       \cup {heap.cdr[i] : i \in PointedTo(closures)}

-----------------------------------------------------------------------------
(* Collector *)

\* The stack is scanned from the newest word to the start.  A word that cannot be
\* a pointer into the used cells is passed over, as nil is.
Plausible(w) == IsPointer(w) /\ PTR_IDX(w) \in 0 .. heap.next - 1
Scanned == [k \in 1 .. sp |-> IF Plausible(stack[sp - k]) THEN stack[sp - k] ELSE NIL_VAL]

\* Seeded bug: the root stack is not marked.
RootWordsNoStack == <<global_env>> \o Scanned

RootWords == <<global_env>> \o gc_roots \o Scanned

\* The marks after a word was followed: gc_mark_val recurses on the car and goes
\* on with the cdr.  Index -1 is the word before heap_mark.
gc_mark_val[m \in SUBSET Links] ==
  [w \in Words \cup Links |->
     IF ~IsPointer(w) \/ PTR_IDX(w) \in m THEN m
     ELSE LET i == PTR_IDX(w) IN
          IF i = -1 THEN m \cup {i}
          ELSE gc_mark_val[gc_mark_val[m \cup {i}][heap.car[i]]][heap.cdr[i]]]

\* The marks after the first n roots.
MarkedBy[n \in 0 .. Len(RootWords)] ==
  IF n = 0 THEN {} ELSE gc_mark_val[MarkedBy[n - 1]][RootWords[n]]

Marked == MarkedBy[Len(RootWords)]

Unmarked == (0 .. heap.next - 1) \ Marked

Lowest(set) == IF set = {} THEN -1 ELSE CHOOSE i \in set : \A j \in set : i <= j

gc_collect ==
  LET free == Unmarked IN
  [heap EXCEPT
     !.car  = [i \in Cells |-> IF i \in free THEN NIL_VAL ELSE @[i]],
     !.cdr  = [i \in Cells |-> IF i \in free THEN Lowest({j \in free : j > i}) ELSE @[i]],
     !.free = Lowest(free)]

-----------------------------------------------------------------------------
(* Allocator *)

\* Free list, then the cells never used, then a collection and the free list.
AllocWith(h, car, cdr) ==
  IF h.free >= 0
  THEN [h EXCEPT !.free = h.cdr[h.free], !.car[h.free] = car, !.cdr[h.free] = cdr]
  ELSE [h EXCEPT !.next = @ + 1, !.car[h.next] = car, !.cdr[h.next] = cdr]

NewIndex(h) == IF h.free >= 0 THEN h.free ELSE h.next

HasRoom(h) == h.next < HEAP_SIZE

\* Seeded bug: the free list is not looked at before a collection.
CanCollectEarly == ~HasRoom(heap)

CanCollect == heap.free < 0 /\ ~HasRoom(heap)

\* Seeded bug: the free list is not tried again after a collection.
AvailableNoRetry == heap.free >= 0 \/ HasRoom(heap)

Available ==
  IF CanCollect THEN gc_collect.free >= 0
  ELSE heap.free >= 0 \/ HasRoom(heap)

\* A new cell, its tagged pointer stored in the newest local.
Alloc(car, cdr, tag) ==
  /\ mode = "run" /\ sp > 0 /\ writes < MaxWrites /\ writes' = writes + 1
  /\ LET h == IF CanCollect THEN gc_collect ELSE heap IN
     IF CanCollect /\ -1 \in Marked
     THEN mode' = "stray" /\ UNCHANGED <<heap, stack, live>>
     ELSE IF ~Available
     THEN mode' = "oom" /\ UNCHANGED <<heap, stack, live>>
     ELSE /\ heap' = AllocWith(h, car, cdr)
          /\ stack' = [stack EXCEPT ![sp - 1] = Tagged(NewIndex(h), tag)]
          /\ live' = live \cup {sp - 1}
          /\ UNCHANGED mode
  /\ UNCHANGED <<roots, sp>>

cons(a, d) == Alloc(a, d, TAG_CONS)
make_closure(data) == Alloc(ETYPE_CLOSURE, data, TAG_EXTENDED)

-----------------------------------------------------------------------------
(* Evaluator *)

\* eval_init conses the first environment with the collector switched off;
\* one cell stands for it.
Started(h) ==
  [h EXCEPT !.next = 1, !.free = -1, !.car[0] = NIL_VAL, !.cdr[0] = NIL_VAL]

Init ==
  /\ mode = "run"
  /\ heap = Started([car |-> [i \in Cells |-> 0], cdr |-> [i \in Cells |-> 0],
                     next |-> 0, free |-> -1])
  /\ global_env = MAKE_CONS(0) /\ gc_roots = <<>>
  /\ stack = [k \in 0 .. StackSize - 1 |-> NIL_VAL] /\ sp = 0 /\ live = {} /\ writes = 0

\* The last session has returned to the menu, and another one is started.
reset_interpreter ==
  /\ mode = "run" /\ sp = 0
  /\ heap' = Started(heap) /\ global_env' = MAKE_CONS(0) /\ gc_roots' = <<>>
  /\ UNCHANGED <<mode, stack, sp, live, writes>>

\* A call takes a word of stack as it finds it; a return leaves it behind.
Call ==
  /\ mode = "run" /\ sp < StackSize /\ sp' = sp + 1
  /\ UNCHANGED <<mode, heap, roots, stack, live, writes>>

Return ==
  /\ mode = "run" /\ sp > 0 /\ sp' = sp - 1 /\ live' = live \ {sp - 1}
  /\ UNCHANGED <<mode, heap, roots, stack, writes>>

\* The newest local is set to anything the program can get at.
Local(w) ==
  /\ mode = "run" /\ sp > 0
  /\ stack' = [stack EXCEPT ![sp - 1] = w] /\ live' = live \cup {sp - 1}
  /\ UNCHANGED <<mode, heap, roots, sp, writes>>

\* define: a cell made by env_extend becomes the global environment.
Define(w) ==
  /\ mode = "run" /\ IS_CONS(w) /\ heap.cdr[PTR_IDX(w)] = global_env /\ global_env' = w
  /\ UNCHANGED <<mode, heap, gc_roots, stack, sp, live, writes>>

\* set! of a binding, and the tail of a list that grows.
SetCdr(w, d) ==
  /\ mode = "run" /\ IS_CONS(w) /\ heap' = [heap EXCEPT !.cdr[PTR_IDX(w)] = d]
  /\ writes < MaxWrites /\ writes' = writes + 1
  /\ UNCHANGED <<mode, roots, stack, sp, live>>

RootsFull == Len(gc_roots) >= MAX_GC_ROOTS

gc_protect(w) ==
  /\ mode = "run" /\ sp > 0
  /\ IF RootsFull
     THEN mode' = "panic" /\ UNCHANGED gc_roots
     ELSE gc_roots' = Append(gc_roots, w) /\ UNCHANGED mode
  /\ UNCHANGED <<heap, global_env, stack, sp, live, writes>>

gc_unprotect ==
  /\ mode = "run" /\ gc_roots # <<>> /\ gc_roots' = Front(gc_roots)
  /\ UNCHANGED <<mode, heap, global_env, stack, sp, live, writes>>

\* (gc)
Gc ==
  /\ mode = "run" /\ sp > 0
  /\ IF -1 \in Marked
     THEN mode' = "stray" /\ UNCHANGED heap
     ELSE heap' = gc_collect /\ UNCHANGED mode
  /\ UNCHANGED <<roots, stack, sp, live, writes>>

Next ==
  \/ reset_interpreter \/ Call \/ Return \/ gc_unprotect \/ Gc
  \/ \E w \in Operands :
       \/ Local(w) \/ Define(w) \/ gc_protect(w) \/ make_closure(w)
       \/ \E d \in Operands : SetCdr(w, d) \/ cons(w, d)

Spec == Init /\ [][Next]_vars

-----------------------------------------------------------------------------
(* Properties *)

\* Every register holds a word the C code can hold; the counts stay below the
\* sizes of their arrays.
TypeOK ==
  /\ mode \in {"run", "panic", "oom", "stray"}
  /\ heap \in [car : [Cells -> Words \cup {0}], cdr : [Cells -> Words \cup Links],
               next : 0 .. HEAP_SIZE, free : Links]
  /\ global_env \in Words /\ gc_roots \in Seq(Words) /\ Len(gc_roots) <= MAX_GC_ROOTS
  /\ stack \in [0 .. StackSize - 1 -> Words] /\ sp \in 0 .. StackSize
  /\ live \subseteq 0 .. sp - 1 /\ writes \in 0 .. MaxWrites

\* The free list: the least set that holds its head and the cell after each.
FreeCells(h) ==
  LET around == {set \in SUBSET Cells :
                   /\ h.free \in set \cup {-1}
                   /\ \A i \in set : h.cdr[i] \in set \cup {-1}}
  IN {i \in Cells : \A set \in around : i \in set}

\* gc.h: the scan never misses live pointers.  A cell the program can still
\* reach is allocated, is not on the free list and holds no link of it.
LiveIsKept ==
  LET cells == LiveCells IN
  /\ cells \subseteq (0 .. heap.next - 1) \ FreeCells(heap)
  /\ LiveRoots \cup Contents(heap, cells) \subseteq Words

\* heap.h and gc.h: words, free list and root stack keep their form, and what is
\* alive is kept.
HeapOK == TypeOK /\ LiveIsKept

\* The interpreter gives up only when every cell can be reached from a root
\* or from a word of the stack.
OomIsFull ==
  mode = "oom" => Cells = Reachable(heap, ToSet(RootWords))

\* gc.h: taking a random word for a pointer over-retains, and does no more: a
\* collection that the allocator asks for writes marks to heap_mark only, because
\* every freed cell was given out again and no link is left to be taken for a value.
\* Only (gc) comes while there are links, and may stray over one.
StraysOnlyByGc == [][mode' = "stray" => writes' = writes]_vars
=============================================================================
