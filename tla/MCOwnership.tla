---------------------------- MODULE MCOwnership ----------------------------
(***************************************************************************)
(* The bodies TLC compiles and executes.                                   *)
(***************************************************************************)
EXTENDS Ownership

CONSTANTS
    Kinds,     \* of the owners: a subset of {"value", "pointer"}
    Origins,   \* of x: a subset of {"local", "param"}
    Shapes     \* the shapes, of those named below, that the bodies may have

LetY(from)  == [op |-> "let", l |-> "y", from |-> from]
SetX(from)  == [op |-> "assign", l |-> "x", from |-> from, drop |-> TRUE]
EatIt(l)    == [op |-> "eat", l |-> l]
UseIt(l)    == [op |-> "use", l |-> l]
Ret(from)   == [op |-> "return", from |-> from, drops |-> <<>>]
Brk         == [op |-> "break", drops |-> <<>>]
Cont        == [op |-> "continue", drops |-> <<>>]
IfElse(a, b)  == [op |-> "if", then |-> Block(a), else |-> Block(b)]
MatchOf(a, b) == [op |-> "match", arms |-> <<Block(a), Block(b)>>]
Loop(a)     == [op |-> "while", inner |-> Block(a)]
Bare(a)     == [op |-> "block", inner |-> Block(a)]

(* statements about x, ends of a branch, and the lives of an inner y       *)
Steps == {EatIt("x"), UseIt("x"), SetX("fresh")}
Exits == {Ret("fresh"), Ret("x")}
Jumps == {Brk, Cont}
Inner(exits) ==
    {<<LetY(f)>> \o t : f \in {"fresh", "x"},
        t \in {<<>>, <<EatIt("y")>>, <<UseIt("y")>>, <<SetX("y")>>, <<Ret("y")>>}
              \cup {<<e>> : e \in exits}}

Leaf(exits) ==
    {<<>>} \cup {<<s>> : s \in Steps \cup exits}
           \cup {<<s, e>> : s \in Steps, e \in exits}
           \cup Inner(exits)

Arms(exits) == {<<>>} \cup {<<s>> : s \in Steps \cup exits}
                      \cup {<<s, e>> : s \in {EatIt("x")}, e \in exits}

Branches(exits) ==
    {IfElse(a, b) : a \in Leaf(exits), b \in Arms(exits)}
    \cup {MatchOf(a, b) : a \in Leaf(exits), b \in Arms(exits)}

Loops ==
    {Loop(a) : a \in Leaf(Exits \cup Jumps)}
    \cup {Loop(<<IfElse(a, <<>>)>> \o b) : a \in Arms(Exits \cup Jumps), b \in Arms({})}

Blocks == {Bare(a) : a \in Leaf(Exits)}

Compounds == Branches(Exits) \cup Loops \cup Blocks

(* two compounds in a row, of the simplest sort                            *)
Pairs ==
    LET Simple == {IfElse(a, <<>>) : a \in Arms({Ret("fresh")})}
                  \cup {Loop(<<s>>) : s \in Steps} \cup {Bare(<<s>>) : s \in Steps}
    IN  {<<c, d>> : c \in Simple, d \in Simple}

Bodies ==
    Pairs \cup
    {p \o <<c>> \o q : p \in {<<>>} \cup {<<s>> : s \in Steps},
                       c \in Compounds,
                       q \in {<<>>} \cup {<<s>> : s \in Steps \cup Exits}}

(* a body that returns an owner somewhere ends every path with a return    *)
RECURSIVE ReturnsOwner(_)
ReturnsOwner(b) ==
    \E i \in DOMAIN b.body :
        \/ b.body[i].op = "return" /\ b.body[i].from # "fresh"
        \/ \E n \in Nested(b.body[i]) : ReturnsOwner(n)

WellTyped(b) == ReturnsOwner(Block(b)) => AlwaysExits(Block(b))

-----------------------------------------------------------------------------
(* The bodies the pass gets wrong fall into five shapes.  A passing run    *)
(* leaves them out, and one that has a shape back in shows what happens.   *)

(* the statements of b, those of nested blocks too                         *)
RECURSIVE Statements(_)
Statements(b) == UNION {{s} \cup UNION {Statements(n) : n \in Nested(s)} : s \in ToSet(b.body)}

Moves(s) == ParamMoves(Block(<<s>>))
Assigns(b, l) == \E s \in Statements(b) : s.op = "assign" /\ s.l = l
Reads(s, l) == \E t \in Statements(Block(<<s>>)) :
                   \/ t.op \in {"eat", "use"} /\ t.l = l
                   \/ t.op \in {"let", "assign", "return"} /\ t.from = l
Compound(s) == Nested(s) # {}

BlocksOf(b) == {b} \cup UNION {Nested(s) : s \in Statements(b)}

(* the moves of x in b that go on to the end of b or to a jump             *)
RECURSIVE Stays(_)
Stays(b) == /\ b.body = <<>> \/ Last(b.body).op # "return"
            /\ \E s \in ToSet(b.body) :
                  IF Compound(s) THEN \E n \in Nested(s) : Stays(n) ELSE "x" \in Moves(s)

(* a loop moves x on some way that stays in it or jumps out of it          *)
MovesInLoop(p) ==
    \E s \in Statements(p.body) :
        s.op = "while" /\ IF p.kind = "value" THEN Stays(s.inner)
                          ELSE \E t \in ToSet(s.inner.body) :
                                  t.op \in {"if", "match"} /\ "x" \in Moves(t)

(* x is moved, and assigned again in a nested block                        *)
RevivesInside(p) ==
    \E b \in BlocksOf(p.body) : \E i, j \in DOMAIN b.body :
        /\ i < j /\ Compound(b.body[j])
        /\ "x" \in Moves(b.body[i])
        /\ Assigns(Block(<<b.body[j]>>), "x")

(* an own *T that a branch moved is read after the join                    *)
ReadsAfterJoin(p) ==
    /\ p.kind = "pointer"
    /\ \E b \in BlocksOf(p.body) : \E i, j \in DOMAIN b.body :
        /\ i < j /\ b.body[i].op \in {"if", "match"}
        /\ "x" \in Moves(b.body[i])
        /\ Reads(b.body[j], "x")

(* a parameter is moved, but not on every path that keeps it               *)
MovesParamSomewhere(p) ==
    /\ p.origin = "param"
    /\ "x" \in ParamMoves(p.body)
    /\ \/ Assigns(p.body, "x")
       \/ \E s \in Statements(p.body) :
              \/ s.op = "return" /\ s.from # "x"
              \/ s.op = "while" /\ "x" \in Moves(s)

(* an arm of a match returns from a function that keeps its parameter      *)
ReturnsFromArm(p) ==
    /\ p.origin = "param"
    /\ \E s \in Statements(p.body) : s.op = "match" /\
          \E t \in UNION {Statements(n) : n \in Nested(s)} : t.op = "return" /\ t.from # "x"

Shape(p) ==
    {n \in {"loop", "revive", "join", "param", "arm"} :
        CASE n = "loop"   -> MovesInLoop(p)
          [] n = "revive" -> RevivesInside(p)
          [] n = "join"   -> ReadsAfterJoin(p)
          [] n = "param"  -> MovesParamSomewhere(p)
          [] n = "arm"    -> ReturnsFromArm(p)}

SmallBodies ==
    {p \in {[kind |-> k, origin |-> o, body |-> Block(b)] :
               k \in Kinds, o \in Origins, b \in {c \in Bodies : WellTyped(c)}} :
        Shape(p) \subseteq Shapes}
=============================================================================
