----------------------------- MODULE Ownership -----------------------------
(***************************************************************************)
(* The ownership half of the lifetime pass (sema/src/lifetime.rs) and the  *)
(* statements codegen emits from it: which uses of an owner the compiler   *)
(* rejects, where it inserts drops, and what the emitted C then does on    *)
(* every path.                                                             *)
(*                                                                         *)
(* A program is a function body over one owner x (a local that starts with *)
(* an object of its own, or a parameter) and one owner y that nested       *)
(* blocks declare.  Both have the kind of the program: "pointer" (own *T,  *)
(* set to null when it is moved) or "value" (a String, a Vec, a struct     *)
(* that owns: the compiler rejects a use after a move, and nothing is done *)
(* at run time).  Compile checks a body and fills in its drops, as the     *)
(* pass does, and the other actions execute the result, one statement a    *)
(* step, with conditions that may go either way.                           *)
(*                                                                         *)
(* Statements are the HStmts the pass distinguishes: let, assign, a call   *)
(* that takes its argument by value (eat: the callee frees it), a borrow   *)
(* (use; for a pointer, the guarded dereference the null check demands),   *)
(* return, if, a match of two arms, while, a block, break and continue.    *)
(* "fresh" stands for any expression that makes a new object.              *)
(*                                                                         *)
(* This module uses recursive operators, so it is model-checked only.      *)
(***************************************************************************)
EXTENDS Integers, Sequences, SequencesExt, FiniteSets

CONSTANTS
    Programs,   \* the bodies to compile: [kind, origin, body]
    MaxTurns    \* iterations of while loops an execution may take in all

ASSUME OwnershipAssumption == MaxTurns \in Nat

Locals == {"x", "y"}

VARIABLES
    phase,   \* "source", "rejected", "run", "done"
    prog,    \* the program, with its drops once it is compiled
    stack,   \* what is left of every open block, innermost first
    slot,    \* the object each local holds; 0 is null
    frees,   \* how often each object was freed or handed to the caller
    dangled, \* a local was dereferenced when its object was gone
    turns    \* iterations taken

vars == <<phase, prog, stack, slot, frees, dangled, turns>>

Block(body) == [body |-> body, free |-> <<>>]

-----------------------------------------------------------------------------
(* Reading a body *)

Nested(s) ==
    CASE s.op = "if"             -> {s.then, s.else}
      [] s.op = "match"          -> {s.arms[1], s.arms[2]}
      [] s.op \in {"while", "block"} -> {s.inner}
      [] OTHER                   -> {}

(* the locals a body consumes anywhere, returns left out *)
RECURSIVE ParamMoves(_)
ParamMoves(b) ==
    UNION {(CASE s.op = "eat" -> {s.l}
              [] s.op \in {"let", "assign"} -> {s.from} \ {"fresh"}
              [] OTHER -> {})
           \cup UNION {ParamMoves(n) : n \in Nested(s)} : s \in ToSet(b.body)}

RECURSIVE AlwaysExits(_)
AlwaysExits(b) ==
    /\ b.body # <<>>
    /\ LET s == Last(b.body) IN
       \/ s.op \in {"return", "break", "continue"}
       \/ s.op = "if" /\ AlwaysExits(s.then) /\ AlwaysExits(s.else)
       \/ s.op = "block" /\ AlwaysExits(s.inner)

-----------------------------------------------------------------------------
(* The checker: which locals are moved, and whether a moved one was used.  *)

Uses(l, st) == [st EXCEPT !.err = @ \/ l \in st.moved]

(* an own *T is never moved for good: the emitted code sets it to null     *)
MarkMoved(kind, l, st) ==
    IF kind = "pointer" \/ l = "fresh" THEN st
    ELSE [st EXCEPT !.moved = @ \cup {l}, !.err = @ \/ l \in st.moved]

JoinedIfBoth(s, then, else) ==
    [moved |-> then.moved \cap else.moved, err |-> then.err \/ else.err]

Joined(s, then, else) ==
    [moved |-> CASE AlwaysExits(s.then) -> else.moved
                 [] AlwaysExits(s.else) /\ ~AlwaysExits(s.then) -> then.moved
                 [] OTHER -> then.moved \cup else.moved,
     err   |-> then.err \/ else.err]

ArmsJoined(s, st, arms) ==
    [moved |-> st.moved \cup
               UNION {arms[i].moved : i \in {j \in 1..2 : ~AlwaysExits(s.arms[j])}},
     err   |-> \E i \in 1..2 : arms[i].err]

(* a moved owner enters the body again: the second walk has its moves      *)
EntersAgain(st, once) == [st EXCEPT !.moved = @ \cup once.moved]

RECURSIVE WalkBlock(_, _, _)
WalkStmt(kind, s, st) ==
    CASE s.op \in {"let", "assign"} ->
            LET read == MarkMoved(kind, s.from, Uses(s.from, st))
            IN  [read EXCEPT !.moved = @ \ {s.l}]
      [] s.op = "eat"    -> MarkMoved(kind, s.l, Uses(s.l, st))
      [] s.op = "use"    -> Uses(s.l, st)
      [] s.op = "return" -> Uses(s.from, st)
      [] s.op = "if"     ->
            Joined(s, WalkBlock(kind, s.then, st), WalkBlock(kind, s.else, st))
      [] s.op = "match"  ->
            ArmsJoined(s, st, [i \in 1..2 |-> WalkBlock(kind, s.arms[i], st)])
      [] s.op = "while"  ->
            LET once == WalkBlock(kind, s.inner, st)
            IN  IF once.moved \subseteq st.moved THEN once
                ELSE WalkBlock(kind, s.inner, EntersAgain(st, once))
      [] s.op = "block"  -> WalkBlock(kind, s.inner, st)
      [] OTHER           -> st

WalkBlock(kind, b, st) == FoldLeft(LAMBDA a, s : WalkStmt(kind, s, a), st, b.body)

Accepts(p) == ~WalkBlock(p.kind, p.body, [moved |-> {}, err |-> FALSE]).err

-----------------------------------------------------------------------------
(* The drop pass.  scopes are the owners each open block has declared so   *)
(* far, the innermost last; loop is the number of blocks open outside of   *)
(* the innermost loop, or 0 outside of loops (a body is a block itself).   *)

LiveInTheBlock(scopes, moved) ==
    SelectSeq(Reverse(Last(scopes)), LAMBDA l : l \notin moved)

LiveIn(scopes, moved) ==
    SelectSeq(FlattenSeq([i \in DOMAIN scopes |-> Reverse(scopes[i])]),
              LAMBDA l : l \notin moved)

JumpDrops(scopes, loop, moved) ==
    SelectSeq(FlattenSeq([i \in 1..(Len(scopes) - loop) |->
                             Reverse(scopes[Len(scopes) + 1 - i])]),
              LAMBDA l : l \notin moved)

ScopeDrops(scope, moved) == SelectSeq(Reverse(scope), LAMBDA l : l \notin moved)

AlsoFrees(b, ls) == [b EXCEPT !.free = @ \o SetToSeq(ls)]

(* every branch that reaches the join frees what another one moved         *)
Compensated(r, moves) == IF r.div THEN r.blk ELSE AlsoFrees(r.blk, moves \ r.esc)

IfMovesIfBoth(then, else) == then.esc \cap else.esc

IfMoves(then, else) ==
    CASE then.div /\ else.div  -> {}
      [] then.div /\ ~else.div -> else.esc
      [] ~then.div /\ else.div -> then.esc
      [] OTHER                 -> then.esc \cup else.esc

Then(then, else) == IF else.div THEN then.blk ELSE Compensated(then, IfMoves(then, else))
Else(then, else) == IF then.div THEN else.blk ELSE Compensated(else, IfMoves(then, else))

ArmMoves(arms) == UNION {arms[i].esc : i \in {j \in 1..2 : ~arms[j].div}}

RECURSIVE VisitBlock(_, _, _, _)
VisitStmt(a, s, loop) ==
    LET moves == IF s.op \in {"let", "assign"} THEN a.moved \cup ({s.from} \ {"fresh"})
                                                ELSE a.moved
        Put(t)      == [a EXCEPT !.out = Append(@, t)]
        Visited(b)  == VisitBlock(b, a.scopes, loop, a.moved)
    IN
    CASE s.op = "let" ->
            [Put(s) EXCEPT !.moved = moves,
                           !.scopes[Len(a.scopes)] = Append(@, s.l)]
      [] s.op = "assign" ->
            [Put([s EXCEPT !.drop = s.l \notin moves]) EXCEPT !.moved = moves \ {s.l}]
      [] s.op = "eat" -> [Put(s) EXCEPT !.moved = @ \cup {s.l}]
      [] s.op = "return" ->
            [Put([s EXCEPT !.drops = LiveIn(a.scopes, a.moved \cup {s.from})])
                EXCEPT !.div = TRUE]
      [] s.op \in {"break", "continue"} ->
            [Put([s EXCEPT !.drops = JumpDrops(a.scopes, loop, a.moved)])
                EXCEPT !.div = TRUE]
      [] s.op = "if" ->
            LET then == Visited(s.then)
                else == Visited(s.else)
            IN  [Put([s EXCEPT !.then = Then(then, else), !.else = Else(then, else)])
                    EXCEPT !.moved = @ \cup IfMoves(then, else),
                           !.div   = @ \/ (then.div /\ else.div)]
      [] s.op = "match" ->
            LET arms == [i \in 1..2 |-> Visited(s.arms[i])]
            IN  [Put([s EXCEPT !.arms = [i \in 1..2 |-> Compensated(arms[i], ArmMoves(arms))]])
                    EXCEPT !.moved = @ \cup ArmMoves(arms)]
      [] s.op = "while" ->
            Put([s EXCEPT !.inner = VisitBlock(s.inner, a.scopes, Len(a.scopes), a.moved).blk])
      [] s.op = "block" ->
            LET b == Visited(s.inner)
            IN  [Put([s EXCEPT !.inner = b.blk]) EXCEPT !.moved = @ \cup b.esc,
                                                        !.div   = @ \/ b.div]
      [] OTHER -> Put(s)

VisitBlock(b, scopes, loop, inherited) ==
    LET r == FoldLeft(LAMBDA a, s : VisitStmt(a, s, loop),
                      [out |-> <<>>, moved |-> inherited, div |-> FALSE,
                       scopes |-> Append(scopes, <<>>)], b.body)
        scope == Last(r.scopes)
    IN  [blk |-> [body |-> r.out, free |-> ScopeDrops(scope, r.moved)],
         esc |-> (r.moved \ inherited) \ ToSet(scope),
         div |-> r.div]

(* a parameter the body never moves is freed at every return and at the end *)
RECURSIVE AppendParamDrops(_)
AppendParamDrops(b) ==
    [b EXCEPT !.body = [i \in DOMAIN b.body |->
        LET s == b.body[i] IN
        CASE s.op = "return" /\ s.from # "x" /\ "x" \notin ToSet(s.drops) ->
                [s EXCEPT !.drops = Append(@, "x")]
          [] s.op = "if" -> [s EXCEPT !.then = AppendParamDrops(@), !.else = AppendParamDrops(@)]
          [] s.op \in {"while", "block"} -> [s EXCEPT !.inner = AppendParamDrops(@)]
          [] OTHER -> s]]

FillHeapDrops(p) ==
    LET local == [op |-> "let", l |-> "x", from |-> "fresh"]
        body  == IF p.origin = "param" THEN p.body
                 ELSE [p.body EXCEPT !.body = <<local>> \o @]
        blk   == VisitBlock(body, <<>>, 0, {}).blk
    IN  IF p.origin = "param" /\ "x" \notin ParamMoves(p.body)
        THEN AlsoFrees(AppendParamDrops(blk), {"x"})
        ELSE blk

-----------------------------------------------------------------------------
(* The emitted C, one statement a step.                                    *)

Frame(b, again) == [rest |-> b.body, free |-> b.free, again |-> again]

Init ==
    /\ phase = "source"
    /\ prog \in Programs
    /\ stack = <<>>
    /\ slot = [l \in Locals |-> IF l = "x" /\ prog.origin = "param" THEN 1 ELSE 0]
    /\ frees = IF prog.origin = "param" THEN <<0>> ELSE <<>>
    /\ dangled = FALSE
    /\ turns = 0

Compile ==
    /\ phase = "source"
    /\ IF Accepts(prog)
       THEN LET blk == FillHeapDrops(prog) IN
            /\ phase' = "run"
            /\ prog' = [prog EXCEPT !.body = blk]
            /\ stack' = <<Frame(blk, <<>>)>>
       ELSE /\ phase' = "rejected"
            /\ UNCHANGED <<prog, stack>>
    /\ UNCHANGED <<slot, frees, dangled, turns>>

Top == Head(stack)

(* control is at a statement of kind op                                    *)
IsAt(op) == phase = "run" /\ Top.rest # <<>> /\ Head(Top.rest).op = op
Stmt == Head(Top.rest)
After == <<[Top EXCEPT !.rest = Tail(@)]>> \o Tail(stack)

(* free through every local of ls, in turn; null is skipped                *)
Freed(ls) == [o \in DOMAIN frees |->
                 frees[o] + Cardinality({i \in DOMAIN ls : slot[ls[i]] = o})]

(* what a move leaves in its source                                        *)
MovedOut(l) == IF prog.kind = "pointer" THEN 0 ELSE slot[l]

Gone(o) == o # 0 /\ frees[o] > 0

(* l receives the object of `from', whose slot is cleared by MovedOut      *)
Bind(l, from, h) ==
    IF from = "fresh"
    THEN /\ frees' = Append(h, 0)
         /\ slot' = [slot EXCEPT ![l] = Len(h) + 1]
    ELSE /\ frees' = h
         /\ slot' = [slot EXCEPT ![l] = slot[from], ![from] = MovedOut(from)]

Let ==
    /\ IsAt("let")
    /\ Bind(Stmt.l, Stmt.from, frees)
    /\ stack' = After
    /\ UNCHANGED <<phase, prog, dangled, turns>>

Assign ==
    /\ IsAt("assign")
    /\ Bind(Stmt.l, Stmt.from, IF Stmt.drop THEN Freed(<<Stmt.l>>) ELSE frees)
    /\ stack' = After
    /\ UNCHANGED <<phase, prog, dangled, turns>>

Eat ==
    /\ IsAt("eat")
    /\ frees' = Freed(<<Stmt.l>>)
    /\ slot' = [slot EXCEPT ![Stmt.l] = MovedOut(Stmt.l)]
    /\ stack' = After
    /\ UNCHANGED <<phase, prog, dangled, turns>>

Use ==
    /\ IsAt("use")
    /\ dangled' = (dangled \/ Gone(slot[Stmt.l]))
    /\ stack' = After
    /\ UNCHANGED <<phase, prog, slot, frees, turns>>

(* the value leaves for the caller before the drops run                    *)
Return ==
    /\ IsAt("return")
    /\ frees' = IF Stmt.from = "fresh" THEN Freed(Stmt.drops) ELSE Freed(Stmt.drops \o <<Stmt.from>>)
    /\ phase' = "done"
    /\ stack' = <<>>
    /\ UNCHANGED <<prog, slot, dangled, turns>>

Enter(b, again) == stack' = <<Frame(b, again)>> \o After

If ==
    /\ IsAt("if")
    /\ \E b \in {Stmt.then, Stmt.else} : Enter(b, <<>>)
    /\ UNCHANGED <<phase, prog, slot, frees, dangled, turns>>

Match ==
    /\ IsAt("match")
    /\ \E i \in 1..2 : Enter(Stmt.arms[i], <<>>)
    /\ UNCHANGED <<phase, prog, slot, frees, dangled, turns>>

BareBlock ==
    /\ IsAt("block")
    /\ Enter(Stmt.inner, <<>>)
    /\ UNCHANGED <<phase, prog, slot, frees, dangled, turns>>

WhileHolds ==
    /\ IsAt("while")
    /\ turns < MaxTurns
    /\ Enter(Stmt.inner, <<Stmt>>)
    /\ turns' = turns + 1
    /\ UNCHANGED <<phase, prog, slot, frees, dangled>>

WhileEnds ==
    /\ IsAt("while")
    /\ stack' = After
    /\ UNCHANGED <<phase, prog, slot, frees, dangled, turns>>

(* the end of a block: its drops, and round again if it is a loop's body   *)
BlockEnds ==
    /\ phase = "run"
    /\ Top.rest = <<>>
    /\ frees' = Freed(Top.free)
    /\ IF Len(stack) = 1
       THEN phase' = "done" /\ stack' = <<>>
       ELSE /\ stack' = <<[stack[2] EXCEPT !.rest = Top.again \o @]>> \o Tail(Tail(stack))
            /\ UNCHANGED phase
    /\ UNCHANGED <<prog, slot, dangled, turns>>

(* the frames up to the innermost loop body are abandoned                  *)
Body == CHOOSE i \in DOMAIN stack :
            stack[i].again # <<>> /\ \A j \in 1..(i - 1) : stack[j].again = <<>>
Outside == SubSeq(stack, Body + 1, Len(stack))

Break ==
    /\ IsAt("break")
    /\ frees' = Freed(Stmt.drops)
    /\ stack' = Outside
    /\ UNCHANGED <<phase, prog, slot, dangled, turns>>

Continue ==
    /\ IsAt("continue")
    /\ frees' = Freed(Stmt.drops)
    /\ stack' = <<[Outside[1] EXCEPT !.rest = stack[Body].again \o @]>> \o Tail(Outside)
    /\ UNCHANGED <<phase, prog, slot, dangled, turns>>

Next ==
    \/ Compile
    \/ Let \/ Assign \/ Eat \/ Use \/ Return
    \/ If \/ Match \/ BareBlock \/ WhileHolds \/ WhileEnds
    \/ BlockEnds \/ Break \/ Continue

Spec == Init /\ [][Next]_vars

-----------------------------------------------------------------------------
(* Whatever path an accepted body takes, no object is freed twice: a       *)
(* callee that took it, a drop at a scope exit, a return, a jump or a      *)
(* reassignment, and the caller it is returned to count as one release.    *)
FreedOnce == \A o \in DOMAIN frees : frees[o] <= 1

(* No accepted body dereferences an owner whose object is gone.            *)
NeverDangles == ~dangled

(* When a body has ended, every object has been freed or handed on: no     *)
(* path leaks an owner.                                                    *)
NothingLeaks == phase = "done" => \A o \in DOMAIN frees : frees[o] >= 1
=============================================================================
