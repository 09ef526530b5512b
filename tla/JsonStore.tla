------------------------------ MODULE JsonStore -----------------------------
(***************************************************************************)
(* Where a JSON document lives: f1x-transform builds applications out of    *)
(* local values moved into one another, and f1x reads documents through     *)
(* the reader's events and replaces strings in them.  Arrays, objects and   *)
(* long strings are blocks of a memory pool that never frees; a block that  *)
(* grows is extended in place or copied.  Beside every value the module     *)
(* keeps the tree it is meant to be: the storage must always hold it.       *)
(* One unit of memory holds a value, or two bytes of a string.              *)
(***************************************************************************)
EXTENDS JsonText

CONSTANTS Locals,          \* the values f1x-transform has in hand; one is the document
          DocumentRoot,
          Scalars, Texts,
          Names,           \* of members
          ShortSize,       \* greatest length of a string kept inside its value
          ChunkCapacity,
          DefaultCapacity, \* of an array or object at its first element
          PoolLimit, StackLimit, DepthLimit \* bounds of the instance

ASSUME StoreAssumption ==
  /\ DocumentRoot \in Locals /\ ShortSize \in Nat
  /\ ChunkCapacity \in Nat \ {0} /\ DefaultCapacity \in Nat \ {0}

VARIABLES use,    \* "build": values are moved into one another; "read": a text is read
          vals,   \* what each local value holds
          pool,   \* the chunks, the head last: capacity, size and contents
          stack,  \* the values the reader has pushed
          open,   \* the arrays and objects it is inside of, and their counts
          meant, meantStack \* the trees they are meant to be

store == <<use, vals, pool, stack, open, meant, meantStack>>

----------------------------------------------------------------------------
(* Memory: MemoryPoolAllocator. *)

NullCell == [flag |-> "null"]
Unset == [flag |-> "unset"]
NULL == <<0, 0>>
Empty(flag) == [flag |-> flag, size |-> 0, capacity |-> 0, at |-> NULL]
UnitsOf(flag) == IF flag = "object" THEN 2 ELSE 1

AddChunk(p, capacity) ==
  Append(p, [capacity |-> capacity, size |-> 0, cells |-> [i \in 1..capacity |-> Unset]])
Malloc(p, n) ==
  LET q == IF p = <<>> \/ Last(p).size + n > Last(p).capacity
           THEN AddChunk(p, IF ChunkCapacity > n THEN ChunkCapacity ELSE n) ELSE p
  IN  IF n = 0 THEN [pool |-> p, at |-> NULL]
      ELSE [pool |-> [q EXCEPT ![Len(q)].size = @ + n], at |-> <<Len(q), Last(q).size + 1>>]
\* only the head chunk's last block can be extended in place
InLastChunk(p, at, size) == at[1] = Len(p)
IsLastBlock(p, at, size) == at[1] = Len(p) /\ at[2] = Last(p).size - size + 1
Cell(p, at, i) == p[at[1]].cells[at[2] + i - 1]
Fill(p, at, cells) ==
  [p EXCEPT ![at[1]].cells =
     [j \in DOMAIN @ |-> IF j - at[2] + 1 \in DOMAIN cells THEN cells[j - at[2] + 1] ELSE @[j]]]
Realloc(p, at, old, new) ==
  LET fresh == Malloc(p, new)
  IN  IF at = NULL THEN fresh
      ELSE IF IsLastBlock(p, at, old) /\ Last(p).size + (new - old) <= Last(p).capacity
      THEN [pool |-> [p EXCEPT ![Len(p)].size = @ + (new - old)], at |-> at]
      ELSE [pool |-> Fill(fresh.pool, fresh.at, [i \in 1..old |-> Cell(p, at, i)]), at |-> fresh.at]

----------------------------------------------------------------------------
(* Values: GenericValue. *)

Grown(capacity) == IF capacity = 0 THEN DefaultCapacity ELSE capacity + (capacity + 1) \div 2
\* room for one more element or member of c: PushBack and AddMember
Reserve(p, c) ==
  LET u == UnitsOf(c.flag)
      r == Realloc(p, c.at, u * c.capacity, u * Grown(c.capacity))
  IN  IF c.size < c.capacity THEN [pool |-> p, cell |-> c]
      ELSE [pool |-> r.pool, cell |-> [c EXCEPT !.at = r.at, !.capacity = Grown(@)]]
\* cells: the moved values of one element or member
AppendCells(p, c, cells) ==
  LET r == Reserve(p, c)
      end == <<r.cell.at[1], r.cell.at[2] + UnitsOf(c.flag) * c.size>>
  IN  [pool |-> Fill(r.pool, end, cells), cell |-> [r.cell EXCEPT !.size = @ + 1]]

\* SetStringRaw: a short string is kept in the value, a long one copied
Pairs(s) == LET z == Append(s, 0)
            IN  [i \in 1..((Len(z) + 1) \div 2) |-> [flag |-> "chars",
                   bytes |-> SubSeq(z, 2 * i - 1, IF 2 * i > Len(z) THEN Len(z) ELSE 2 * i)]]
SetString(p, s) ==
  LET m == Malloc(p, Len(Pairs(s)))
  IN  IF Len(s) <= ShortSize THEN [pool |-> p, cell |-> [flag |-> "short", s |-> s]]
      ELSE [pool |-> Fill(m.pool, m.at, Pairs(s)), cell |-> [flag |-> "copy", length |-> Len(s), at |-> m.at]]
\* SetArrayRaw and SetObjectRaw: exactly the popped values
SetRaw(p, flag, cells) ==
  LET m == Malloc(p, Len(cells))
      count == Len(cells) \div UnitsOf(flag)
  IN  [pool |-> IF count = 0 THEN p ELSE Fill(m.pool, m.at, cells),
       cell |-> [flag |-> flag, size |-> count, capacity |-> count, at |-> m.at]]

\* what a value holds, read through its pointers; no tree is deeper than DepthLimit
RECURSIVE DenotedWithin(_, _, _)
DenotedWithin(p, c, depth) ==
  CASE c.flag = "null" -> Null
    [] c.flag = "scalar" -> c.v
    [] c.flag \in {"short", "const"} -> StringValue(c.s)
    [] c.flag = "copy" ->
         LET parts == [i \in 1..((c.length + 2) \div 2) |-> Cell(p, c.at, i)]
         IN  IF \A i \in DOMAIN parts : parts[i].flag = "chars"
             THEN StringValue(SubSeq(FlattenSeq([i \in DOMAIN parts |-> parts[i].bytes]), 1, c.length))
             ELSE [t |-> "garbage"]
    [] c.flag \in {"array", "object"} /\ depth = 0 -> [t |-> "garbage"]
    [] c.flag = "array" /\ depth > 0 ->
         ArrayValue([i \in 1..c.size |-> DenotedWithin(p, Cell(p, c.at, i), depth - 1)])
    [] c.flag = "object" /\ depth > 0 ->
         LET parts == [i \in 1..(2 * c.size) |-> DenotedWithin(p, Cell(p, c.at, i), depth - 1)]
         IN  IF \A i \in 1..c.size : parts[2 * i - 1].t = "string"
             THEN ObjectValue([i \in 1..c.size |-> <<parts[2 * i - 1].s, parts[2 * i]>>])
             ELSE [t |-> "garbage"]
    [] OTHER -> [t |-> "garbage"]
Denoted(p, c) == DenotedWithin(p, c, DepthLimit)

RECURSIVE Depth(_)
Depth(v) == CASE v.t = "array" -> 1 + FoldLeft(LAMBDA d, x : IF Depth(x) > d THEN Depth(x) ELSE d, 0, v.e)
              [] v.t = "object" -> 1 + FoldLeft(LAMBDA d, x : IF Depth(x[2]) > d THEN Depth(x[2]) ELSE d, 0, v.m)
              [] OTHER -> 0
Used(p) == FoldLeft(LAMBDA n, chunk : n + chunk.size, 0, p)

----------------------------------------------------------------------------
(* f1x-transform builds a document.  The source of a move becomes null and  *)
(* keeps its stale pointer.                                                 *)

MovedFrom(c) == NullCell
Building == use = "build" /\ UNCHANGED <<use, stack, open, meantStack>>

New(h, c, v) ==
  /\ vals' = [vals EXCEPT ![h] = c]
  /\ meant' = [meant EXCEPT ![h] = v]
MakeScalar(h, v) == Building /\ vals[h] = NullCell /\ New(h, [flag |-> "scalar", v |-> v], v) /\ UNCHANGED pool
MakeContainer(h, flag) ==
  /\ Building /\ vals[h] = NullCell /\ UNCHANGED pool
  /\ New(h, Empty(flag), IF flag = "array" THEN ArrayValue(<<>>) ELSE ObjectValue(<<>>))
\* of a literal, which is not copied, or of a string object
MakeLiteral(h, s) ==
  /\ Building /\ vals[h] = NullCell /\ UNCHANGED pool
  /\ New(h, [flag |-> "const", s |-> s], StringValue(s))
MakeString(h, s) ==
  /\ Building /\ vals[h] = NullCell
  /\ LET set == SetString(pool, s) IN New(h, set.cell, StringValue(s)) /\ pool' = set.pool

Moved(h, g, r, tree) ==
  /\ pool' = r.pool
  /\ vals' = [vals EXCEPT ![h] = r.cell, ![g] = MovedFrom(@)]
  /\ meant' = [meant EXCEPT ![h] = tree, ![g] = Null]
PushBack(h, g) ==
  /\ Building /\ h # g /\ vals[h].flag = "array" /\ Depth(meant[g]) < DepthLimit
  /\ Moved(h, g, AppendCells(pool, vals[h], <<vals[g]>>), ArrayValue(Append(meant[h].e, meant[g])))
AddMember(h, name, g) ==
  /\ Building /\ h # g /\ vals[h].flag = "object" /\ Depth(meant[g]) < DepthLimit
  /\ Moved(h, g, AppendCells(pool, vals[h], <<[flag |-> "const", s |-> name], vals[g]>>),
           ObjectValue(Append(meant[h].m, <<name, meant[g]>>)))
\* std::move into another value, as through the visitor's stack
Move(h, g) ==
  /\ Building /\ h # g /\ vals[g] # NullCell /\ vals[h] = NullCell
  /\ Moved(h, g, [pool |-> pool, cell |-> vals[g]], meant[g])

----------------------------------------------------------------------------
(* f1x reads a document: the handler of the reader's events.                *)

Reading == use = "read" /\ vals[DocumentRoot] = NullCell /\ UNCHANGED <<use, vals, meant>>
NameDue == open # <<>> /\ Last(open).flag = "object" /\ Last(open).count % 2 = 0
Expected == (stack = <<>>) \/ (open # <<>>)
Counted == IF open = <<>> THEN open ELSE [open EXCEPT ![Len(open)].count = @ + 1]
Pushed(c, v) == stack' = Append(stack, c) /\ meantStack' = Append(meantStack, v)

ReadScalar(v) ==
  /\ Reading /\ Expected /\ ~NameDue
  /\ Pushed([flag |-> "scalar", v |-> v], v)
  /\ open' = Counted /\ UNCHANGED pool
ReadString(s) ==
  /\ Reading /\ Expected
  /\ LET set == SetString(pool, s) IN Pushed(set.cell, StringValue(s)) /\ pool' = set.pool
  /\ open' = Counted
StartContainer(flag) ==
  /\ Reading /\ Expected /\ ~NameDue /\ Len(open) < DepthLimit
  /\ Pushed(Empty(flag), IF flag = "array" THEN ArrayValue(<<>>) ELSE ObjectValue(<<>>))
  /\ open' = Append(Counted, [flag |-> flag, count |-> 0])
  /\ UNCHANGED pool
EndContainer ==
  /\ Reading /\ open # <<>> /\ (Last(open).flag = "object" => NameDue)
  /\ LET n == Last(open).count
         flag == Last(open).flag
         below == Len(stack) - n - 1
         set == SetRaw(pool, flag, SubSeq(stack, Len(stack) - n + 1, Len(stack)))
         tree == [stack |-> meantStack]
     IN  /\ stack' = Append(SubSeq(stack, 1, below), set.cell)
         /\ pool' = set.pool
         /\ meantStack' = IF flag = "array" THEN EndArray(tree, n).stack ELSE EndObject(tree, n \div 2).stack
  /\ open' = Front(open)
\* ParseStream: the one value left becomes the document
Finish ==
  /\ use = "read" /\ vals[DocumentRoot] = NullCell /\ Len(stack) = 1 /\ open = <<>>
  /\ vals' = [vals EXCEPT ![DocumentRoot] = stack[1]]
  /\ meant' = [meant EXCEPT ![DocumentRoot] = meantStack[1]]
  /\ stack' = <<>> /\ meantStack' = <<>>
  /\ UNCHANGED <<use, pool, open>>
\* an error clears the stack; what was allocated stays so
Abandon ==
  /\ Reading /\ stack # <<>> /\ stack' = <<>> /\ meantStack' = <<>> /\ open' = <<>>
  /\ UNCHANGED pool

\* entry["command"].SetString(...) for an entry of the database
Replace(i, j, s) ==
  /\ use = "read"
  /\ LET db == vals[DocumentRoot]
         entry == Cell(pool, db.at, i)
         set == SetString(pool, s)
     IN  /\ db.flag = "array" /\ i \in 1..db.size
         /\ entry.flag = "object" /\ j \in 1..entry.size
         /\ pool' = Fill(set.pool, <<entry.at[1], entry.at[2] + 2 * j - 1>>, <<set.cell>>)
  /\ meant' = [meant EXCEPT ![DocumentRoot].e[i].m[j][2] = StringValue(s)]
  /\ UNCHANGED <<use, vals, stack, open, meantStack>>

----------------------------------------------------------------------------
StoreInit ==
  /\ use \in {"build", "read"}
  /\ vals = [h \in Locals |-> NullCell] /\ pool = <<>> /\ stack = <<>> /\ open = <<>>
  /\ meant = [h \in Locals |-> Null] /\ meantStack = <<>>

StoreNext ==
  /\ Used(pool) < PoolLimit /\ Len(stack) < StackLimit
  /\ \/ \E h \in Locals :
          \/ \E v \in Scalars : MakeScalar(h, v)
          \/ \E flag \in {"array", "object"} : MakeContainer(h, flag)
          \/ \E s \in Texts : MakeString(h, s)
          \/ \E s \in Names : MakeLiteral(h, s)
          \/ \E g \in Locals : PushBack(h, g) \/ Move(h, g) \/ \E name \in Names : AddMember(h, name, g)
     \/ \E v \in Scalars : ReadScalar(v)
     \/ \E s \in Texts : ReadString(s) \/ \E i, j \in 1..PoolLimit : Replace(i, j, s)
     \/ \E flag \in {"array", "object"} : StartContainer(flag)
     \/ EndContainer \/ Finish \/ Abandon

----------------------------------------------------------------------------
(* However blocks grew, were copied or were left behind, every value the     *)
(* program can still reach reads back as the tree it was built or read as.   *)
StorageMeant ==
  /\ \A h \in Locals : Denoted(pool, vals[h]) = meant[h]
  /\ \A i \in DOMAIN stack : Denoted(pool, stack[i]) = meantStack[i]

=============================================================================
