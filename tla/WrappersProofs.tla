---------------------------- MODULE WrappersProofs ---------------------------
(***************************************************************************)
(* Proofs about the handles of Clients and the objects that own them, for  *)
(* any number of objects, every class and every build.                     *)
(***************************************************************************)
EXTENDS Clients, Integers, Sequences, TLAPS

(***************************************************************************)
(* Constructors.  A step is clean in a state of the constructor if its     *)
(* error path releases all that is held, and nothing is released twice.  A *)
(* program is clean if its steps are, and if it ends with what the         *)
(* destructor of the class will release.  Clean is the greatest such       *)
(* property, so that it unfolds one step at a time.                        *)
(***************************************************************************)
State(held, freed, exposed) == [held |-> held, freed |-> freed, exposed |-> exposed]
Start == State({}, {}, {})

After(s, t) ==
    State((t.held \cup s.gets) \ s.drops, (t.freed \ s.gets) \cup s.drops,
          ((t.exposed \cup s.exposes) \ s.seals) \ s.drops)

\* Step s of a constructor of class c is clean in t and leads to u.
Goes(c, s, t, u) ==
    /\ s.drops \cap t.freed = {}
    /\ s.fails => /\ s.undo \cap t.freed = {}
                  /\ c # "directory_iterator" => t.held \subseteq s.undo
    /\ u = After(s, t)

\* What the handle of an object of class c may hold.
Destroyable(c, b, held) ==
    IF c = "thread"
    THEN held \subseteq {"created", "thread", "function"} /\ "created" \in held
    ELSE held \subseteq W!Class(c, b).destroys /\ "function" \notin held

Ends(c, b, t) == Destroyable(c, b, t.held) /\ (b # "windows" => t.exposed = {})

CleanSet(S, c, b) ==
    \A q, t : <<q, t>> \in S =>
        IF q = <<>> THEN Ends(c, b, t)
        ELSE Goes(c, Head(q), t, After(Head(q), t)) /\ <<Tail(q), After(Head(q), t)>> \in S

Clean(c, b, q, t) == \E S : <<q, t>> \in S /\ CleanSet(S, c, b)

\* A clean program makes a clean step, and the rest of it is clean.
LEMMA CleanUnfold ==
    ASSUME NEW c, NEW b, NEW q, NEW t, Clean(c, b, q, t), q # <<>>
    PROVE  /\ Goes(c, Head(q), t, After(Head(q), t))
           /\ Clean(c, b, Tail(q), After(Head(q), t))
<1>1. PICK S : <<q, t>> \in S /\ CleanSet(S, c, b)
  BY Zenon DEF Clean
<1>2. Goes(c, Head(q), t, After(Head(q), t)) /\ <<Tail(q), After(Head(q), t)>> \in S
  BY <1>1, Zenon DEF CleanSet
<1>3. QED
  BY <1>1, <1>2, Zenon DEF Clean

\* At its end a clean program holds what the destructor releases.
LEMMA CleanEnd ==
    ASSUME NEW c, NEW b, NEW t, Clean(c, b, <<>>, t)
    PROVE  Ends(c, b, t)
BY Zenon DEF Clean, CleanSet

\* The converse of CleanEnd ...
LEMMA CleanNil ==
    ASSUME NEW c, NEW b, NEW t, Ends(c, b, t)
    PROVE  Clean(c, b, <<>>, t)
<1>1. CleanSet({<<<<>>, t>>}, c, b)
  BY Zenon DEF CleanSet
<1>2. QED
  BY Zenon, <1>1 DEF Clean

\* ... and that of CleanUnfold.
LEMMA CleanFold ==
    ASSUME NEW c, NEW b, NEW q, NEW t, NEW u, q # <<>>,
           Goes(c, Head(q), t, u), Clean(c, b, Tail(q), u)
    PROVE  Clean(c, b, q, t)
<1>0. u = After(Head(q), t)
  BY Zenon DEF Goes
<1>1. PICK S : <<Tail(q), u>> \in S /\ CleanSet(S, c, b)
  BY Zenon DEF Clean
<1> DEFINE R == S \cup {<<q, t>>}
<1>2. ASSUME NEW p, NEW x, <<p, x>> \in R
      PROVE  IF p = <<>> THEN Ends(c, b, x)
             ELSE /\ Goes(c, Head(p), x, After(Head(p), x))
                  /\ <<Tail(p), After(Head(p), x)>> \in R
  <2>1. CASE <<p, x>> \in S
    BY <1>1, <2>1, Zenon DEF CleanSet
  <2>2. CASE p = q /\ x = t
    BY <1>0, <1>1, <2>2, Zenon
  <2>3. QED
    BY Zenon, <1>2, <2>1, <2>2
<1>3. CleanSet(R, c, b)
  BY <1>2, Zenon DEF CleanSet
<1>4. <<q, t>> \in R
  OBVIOUS
<1>5. QED
  BY <1>3, <1>4, Zenon DEF Clean

(***************************************************************************)
(* Programs are sequences, put together from short ones.                   *)
(***************************************************************************)
Sequence(q) == \E S : q \in Seq(S)

\* The short sequences.
LEMMA ShortSequences ==
    /\ Sequence(<<>>)
    /\ \A x : Sequence(<<x>>)
    /\ \A x, y : Sequence(<<x, y>>)
    /\ \A x, y, z : Sequence(<<x, y, z>>)
    /\ \A x, y, z, u : Sequence(<<x, y, z, u>>)
    /\ \A x, y, z, u, v : Sequence(<<x, y, z, u, v>>)
<1>1. <<>> \in Seq({})
  OBVIOUS
<1>2. \A x : <<x>> \in Seq({x})
  OBVIOUS
<1>3. \A x, y : <<x, y>> \in Seq({x, y})
  OBVIOUS
<1>4. \A x, y, z : <<x, y, z>> \in Seq({x, y, z})
  OBVIOUS
<1>5. \A x, y, z, u : <<x, y, z, u>> \in Seq({x, y, z, u})
  OBVIOUS
<1>6. \A x, y, z, u, v : <<x, y, z, u, v>> \in Seq({x, y, z, u, v})
  OBVIOUS
<1>7. QED
  BY <1>1, <1>2, <1>3, <1>4, <1>5, <1>6, ZenonT(60) DEF Sequence

\* Concatenation gives a sequence.
LEMMA SequenceConcat ==
    ASSUME NEW p, NEW q, Sequence(p), Sequence(q)
    PROVE  Sequence(p \o q)
<1>1. PICK S, R : p \in Seq(S) /\ q \in Seq(R)
  BY Zenon DEF Sequence
<1>2. p \in Seq(S \cup R) /\ q \in Seq(S \cup R)
  BY SMTT(60), SMTT(90), <1>1
<1>3. p \o q \in Seq(S \cup R)
  BY SMTT(60), SMTT(90), <1>2
<1>4. QED
  BY <1>3, Zenon DEF Sequence

\* The empty sequence is neutral.
LEMMA ConcatNil ==
    ASSUME NEW p, Sequence(p)
    PROVE  p \o <<>> = p
BY SMTT(60), SMTT(90) DEF Sequence

\* Concatenation is associative.
LEMMA ConcatAssoc ==
    ASSUME NEW p, NEW q, NEW r, Sequence(p), Sequence(q), Sequence(r)
    PROVE  (p \o q) \o r = p \o (q \o r)
<1>1. PICK S, R, U : p \in Seq(S) /\ q \in Seq(R) /\ r \in Seq(U)
  BY Zenon DEF Sequence
<1> DEFINE V == S \cup R \cup U
<1>2. p \in Seq(V) /\ q \in Seq(V) /\ r \in Seq(V)
  BY <1>1
<1> HIDE DEF V
<1>3. QED
  BY SMTT(60), SMTT(90), <1>2

\* The first step and the rest.
LEMMA Cons ==
    ASSUME NEW x, NEW q, Sequence(q)
    PROVE  Head(<<x>> \o q) = x /\ Tail(<<x>> \o q) = q /\ <<x>> \o q # <<>>
<1>1. PICK S : q \in Seq(S)
  BY Zenon DEF Sequence
<1> DEFINE R == S \cup {x}
<1>2. q \in Seq(R) /\ x \in R
  BY SMTT(60), SMTT(90), <1>1
<1> HIDE DEF R
<1>3. QED
  BY <1>2

\* The first step and the rest of a program that starts with two steps ...
LEMMA Uncons2 ==
    ASSUME NEW x, NEW y, NEW q, Sequence(q)
    PROVE  /\ Head(<<x, y>> \o q) = x /\ <<x, y>> \o q # <<>>
           /\ Tail(<<x, y>> \o q) = <<y>> \o q
<1>1. PICK S : q \in Seq(S)
  BY DEF Sequence
<1> DEFINE R == S \cup {x, y}
<1>2. q \in Seq(R) /\ x \in R /\ y \in R
  BY <1>1
<1> HIDE DEF R
<1>3. QED
  BY SMTT(60), SMTT(90), <1>2

\* ... with three ...
LEMMA Uncons3 ==
    ASSUME NEW x, NEW y, NEW z, NEW q, Sequence(q)
    PROVE  /\ Head(<<x, y, z>> \o q) = x /\ <<x, y, z>> \o q # <<>>
           /\ Tail(<<x, y, z>> \o q) = <<y, z>> \o q
<1>1. PICK S : q \in Seq(S)
  BY DEF Sequence
<1> DEFINE R == S \cup {x, y, z}
<1>2. q \in Seq(R) /\ x \in R /\ y \in R /\ z \in R
  BY SMTT(60), SMTT(90), <1>1
<1> HIDE DEF R
<1>3. QED
  BY SMTT(60), SMTT(90), <1>2

\* ... with four ...
LEMMA Uncons4 ==
    ASSUME NEW x, NEW y, NEW z, NEW v, NEW q, Sequence(q)
    PROVE  /\ Head(<<x, y, z, v>> \o q) = x /\ <<x, y, z, v>> \o q # <<>>
           /\ Tail(<<x, y, z, v>> \o q) = <<y, z, v>> \o q
<1>1. PICK S : q \in Seq(S)
  BY DEF Sequence
<1> DEFINE R == S \cup {x, y, z, v}
<1>2. q \in Seq(R) /\ x \in R /\ y \in R /\ z \in R /\ v \in R
  BY SMTT(60), SMTT(90), <1>1
<1> HIDE DEF R
<1>3. QED
  BY SMTT(60), SMTT(90), <1>2

\* ... and with five.
LEMMA Uncons5 ==
    ASSUME NEW x, NEW y, NEW z, NEW v, NEW w, NEW q, Sequence(q)
    PROVE  /\ Head(<<x, y, z, v, w>> \o q) = x /\ <<x, y, z, v, w>> \o q # <<>>
           /\ Tail(<<x, y, z, v, w>> \o q) = <<y, z, v, w>> \o q
<1>1. PICK S : q \in Seq(S)
  BY DEF Sequence
<1> DEFINE R == S \cup {x, y, z, v, w}
<1>2. q \in Seq(R) /\ x \in R /\ y \in R /\ z \in R /\ v \in R /\ w \in R
  BY SMTT(60), SMTT(90), <1>1
<1> HIDE DEF R
<1>3. QED
  BY SMTT(60), SMTT(90), <1>2

\* One step ...
LEMMA Clean1 ==
    ASSUME NEW c, NEW b, NEW q, NEW x,
           NEW t0, NEW t1, Sequence(q),
           Goes(c, x, t0, t1),
           Clean(c, b, q, t1)
    PROVE  Clean(c, b, <<x>> \o q, t0)
<1> DEFINE p == <<x>> \o q
<1>1. Head(p) = x /\ Tail(p) = q /\ p # <<>>
  BY Cons, Zenon
<1> HIDE DEF p
<1>2. Clean(c, b, p, t0)
  BY <1>1, CleanFold, Zenon
<1>3. QED
  BY Zenon, <1>2 DEF p

\* ... two steps ...
LEMMA Clean2 ==
    ASSUME NEW c, NEW b, NEW q, NEW x, NEW y,
           NEW t0, NEW t1, NEW t2, Sequence(q),
           Goes(c, x, t0, t1), Goes(c, y, t1, t2),
           Clean(c, b, q, t2)
    PROVE  Clean(c, b, <<x, y>> \o q, t0)
<1> DEFINE p == <<x, y>> \o q
<1>1. Head(p) = x /\ Tail(p) = <<y>> \o q /\ p # <<>>
  BY ZenonT(60), Uncons2
<1>2. Clean(c, b, <<y>> \o q, t1)
  BY Clean1, Zenon
<1> HIDE DEF p
<1>3. Clean(c, b, p, t0)
  BY <1>1, <1>2, CleanFold, Zenon
<1>4. QED
  BY Zenon, <1>3 DEF p

\* ... three ...
LEMMA Clean3 ==
    ASSUME NEW c, NEW b, NEW q, NEW x, NEW y, NEW z,
           NEW t0, NEW t1, NEW t2, NEW t3, Sequence(q),
           Goes(c, x, t0, t1), Goes(c, y, t1, t2), Goes(c, z, t2, t3),
           Clean(c, b, q, t3)
    PROVE  Clean(c, b, <<x, y, z>> \o q, t0)
<1> DEFINE p == <<x, y, z>> \o q
<1>1. Head(p) = x /\ Tail(p) = <<y, z>> \o q /\ p # <<>>
  BY SMTT(60), SMTT(90), Uncons3
<1>2. Clean(c, b, <<y, z>> \o q, t1)
  BY Clean2, Zenon
<1> HIDE DEF p
<1>3. Clean(c, b, p, t0)
  BY <1>1, <1>2, CleanFold, Zenon
<1>4. QED
  BY Zenon, <1>3 DEF p

\* ... four ...
LEMMA Clean4 ==
    ASSUME NEW c, NEW b, NEW q, NEW x, NEW y, NEW z, NEW v,
           NEW t0, NEW t1, NEW t2, NEW t3, NEW t4, Sequence(q),
           Goes(c, x, t0, t1), Goes(c, y, t1, t2), Goes(c, z, t2, t3),
           Goes(c, v, t3, t4),
           Clean(c, b, q, t4)
    PROVE  Clean(c, b, <<x, y, z, v>> \o q, t0)
<1> DEFINE p == <<x, y, z, v>> \o q
<1>1. Head(p) = x /\ Tail(p) = <<y, z, v>> \o q /\ p # <<>>
  BY SMTT(60), SMTT(90), Uncons4
<1>2. Clean(c, b, <<y, z, v>> \o q, t1)
  BY Clean3, Zenon
<1> HIDE DEF p
<1>3. Clean(c, b, p, t0)
  BY <1>1, <1>2, CleanFold, Zenon
<1>4. QED
  BY ZenonT(60), <1>3 DEF p

\* ... and five.
LEMMA Clean5 ==
    ASSUME NEW c, NEW b, NEW q, NEW x, NEW y, NEW z, NEW v, NEW w,
           NEW t0, NEW t1, NEW t2, NEW t3, NEW t4, NEW t5, Sequence(q),
           Goes(c, x, t0, t1), Goes(c, y, t1, t2), Goes(c, z, t2, t3),
           Goes(c, v, t3, t4), Goes(c, w, t4, t5),
           Clean(c, b, q, t5)
    PROVE  Clean(c, b, <<x, y, z, v, w>> \o q, t0)
<1> DEFINE p == <<x, y, z, v, w>> \o q
<1>1. Head(p) = x /\ Tail(p) = <<y, z, v, w>> \o q /\ p # <<>>
  BY SMTT(60), SMTT(90), Uncons5
<1>2. Clean(c, b, <<y, z, v, w>> \o q, t1)
  BY Clean4, Zenon
<1> HIDE DEF p
<1>3. Clean(c, b, p, t0)
  BY <1>1, <1>2, CleanFold, ZenonT(60)
<1>4. QED
  BY ZenonT(60), <1>3 DEF p

\* The part p of a constructor is clean from t and leads to u, whatever follows.
Passes(c, p, t, u) ==
    /\ Sequence(p)
    /\ \A b, q : Sequence(q) /\ Clean(c, b, q, u) => Clean(c, b, p \o q, t)

\* Nothing leads nowhere.
LEMMA PassesNil ==
    ASSUME NEW c, NEW t
    PROVE  Passes(c, <<>>, t, t)
<1>1. ASSUME NEW b, NEW q, Sequence(q), Clean(c, b, q, t)
      PROVE  Clean(c, b, <<>> \o q, t)
  <2>1. <<>> \o q = q
    <3>1. PICK S : q \in Seq(S)
      BY Zenon, <1>1 DEF Sequence
    <3>2. QED
      BY SMTT(60), SMTT(90), <3>1
  <2>2. QED
    BY <1>1, <2>1, Zenon
<1>2. QED
  BY <1>1, ShortSequences, Zenon DEF Passes

\* One clean step ...
LEMMA Passes1 ==
    ASSUME NEW c, NEW x, NEW t0, NEW t1, Goes(c, x, t0, t1)
    PROVE  Passes(c, <<x>>, t0, t1)
BY Clean1, ShortSequences, Zenon DEF Passes

\* ... two ...
LEMMA Passes2 ==
    ASSUME NEW c, NEW x, NEW y, NEW t0, NEW t1, NEW t2,
           Goes(c, x, t0, t1), Goes(c, y, t1, t2)
    PROVE  Passes(c, <<x, y>>, t0, t2)
BY Clean2, ShortSequences, Zenon DEF Passes

\* ... three ...
LEMMA Passes3 ==
    ASSUME NEW c, NEW x, NEW y, NEW z, NEW t0, NEW t1, NEW t2, NEW t3,
           Goes(c, x, t0, t1), Goes(c, y, t1, t2), Goes(c, z, t2, t3)
    PROVE  Passes(c, <<x, y, z>>, t0, t3)
BY Clean3, ShortSequences, ZenonT(60) DEF Passes

\* ... four ...
LEMMA Passes4 ==
    ASSUME NEW c, NEW x, NEW y, NEW z, NEW v,
           NEW t0, NEW t1, NEW t2, NEW t3, NEW t4,
           Goes(c, x, t0, t1), Goes(c, y, t1, t2), Goes(c, z, t2, t3), Goes(c, v, t3, t4)
    PROVE  Passes(c, <<x, y, z, v>>, t0, t4)
BY Clean4, ShortSequences, Zenon DEF Passes

\* ... and five.
LEMMA Passes5 ==
    ASSUME NEW c, NEW x, NEW y, NEW z, NEW v, NEW w,
           NEW t0, NEW t1, NEW t2, NEW t3, NEW t4, NEW t5,
           Goes(c, x, t0, t1), Goes(c, y, t1, t2), Goes(c, z, t2, t3), Goes(c, v, t3, t4),
           Goes(c, w, t4, t5)
    PROVE  Passes(c, <<x, y, z, v, w>>, t0, t5)
BY Clean5, ShortSequences, Zenon DEF Passes

\* One part after the other.
LEMMA PassesConcat ==
    ASSUME NEW c, NEW p, NEW q, NEW t, NEW u, NEW v,
           Passes(c, p, t, u), Passes(c, q, u, v)
    PROVE  Passes(c, p \o q, t, v)
<1>1. Sequence(p) /\ Sequence(q) /\ Sequence(p \o q)
  BY SequenceConcat, Zenon DEF Passes
<1>2. ASSUME NEW b, NEW r, Sequence(r), Clean(c, b, r, v)
      PROVE  Clean(c, b, (p \o q) \o r, t)
  <2>1. Clean(c, b, p \o (q \o r), t)
    BY <1>1, <1>2, SequenceConcat, Zenon DEF Passes
  <2>2. (p \o q) \o r = p \o (q \o r)
    BY SMTT(60), SMTT(90), <1>1, <1>2, ConcatAssoc
  <2>3. QED
    BY <2>1, <2>2, Zenon
<1>3. QED
  BY <1>1, <1>2, Zenon DEF Passes

\* The whole constructor.
LEMMA PassesEnds ==
    ASSUME NEW c, NEW b, NEW p, NEW t, NEW u, Passes(c, p, t, u), Ends(c, b, u)
    PROVE  Clean(c, b, p, t)
<1>1. Clean(c, b, p \o <<>>, t)
  BY CleanNil, ShortSequences, Zenon DEF Passes
<1>2. p \o <<>> = p
  BY ConcatNil, Zenon DEF Passes
<1>3. QED
  BY <1>1, <1>2, Zenon

(***************************************************************************)
(* Calling: the caller's error path follows that of the callee.            *)
(***************************************************************************)
Only(held) == State(held, {}, {})
With(s, u) == [s EXCEPT !.undo = @ \cup u]

\* The steps of a constructor that is called.
LEMMA CallingIs ==
    ASSUME NEW p, NEW u
    PROVE  W!Calling(p, u) = [k \in 1 .. Len(p) |-> With(p[k], u)]
BY Zenon DEF W!Calling, With

\* A call without steps.
LEMMA Calling0 ==
    ASSUME NEW u
    PROVE  W!Calling(<<>>, u) = <<>>
BY SMTT(60), SMTT(90), CallingIs

\* A call with one step fails as that step does, and releases u too.
LEMMA Calling1 ==
    ASSUME NEW x, NEW u
    PROVE  W!Calling(<<x>>, u) = <<With(x, u)>>
BY SMTT(60), SMTT(90), CallingIs

\* The same for two steps.
LEMMA Calling2 ==
    ASSUME NEW x, NEW y, NEW u
    PROVE  W!Calling(<<x, y>>, u) = <<With(x, u), With(y, u)>>
BY SMTT(60), SMTT(90), CallingIs

\* The same for three.
LEMMA Calling3 ==
    ASSUME NEW x, NEW y, NEW z, NEW u
    PROVE  W!Calling(<<x, y, z>>, u) = <<With(x, u), With(y, u), With(z, u)>>
BY SMTT(60), SMTT(90), CallingIs

\* A called program in two parts.
LEMMA CallingConcat ==
    ASSUME NEW p, NEW q, NEW u, Sequence(p), Sequence(q)
    PROVE  W!Calling(p \o q, u) = W!Calling(p, u) \o W!Calling(q, u)
<1>1. PICK S, R : p \in Seq(S) /\ q \in Seq(R)
  BY DEF Sequence
<1> DEFINE V == S \cup R
           Q == {With(s, u) : s \in V}
<1>2. p \in Seq(V) /\ q \in Seq(V)
  BY SMTT(60), SMTT(90), <1>1
<1> HIDE DEF V
<1>3. /\ p \o q \in Seq(V) /\ Len(p \o q) = Len(p) + Len(q)
      /\ \A k \in 1 .. Len(p) + Len(q) :
           (p \o q)[k] = IF k <= Len(p) THEN p[k] ELSE q[k - Len(p)]
  BY SMTT(60), SMTT(90), <1>2
<1>4. ASSUME NEW r \in Seq(V)
      PROVE  /\ W!Calling(r, u) \in Seq(Q) /\ Len(W!Calling(r, u)) = Len(r)
             /\ \A k \in 1 .. Len(r) : W!Calling(r, u)[k] = With(r[k], u)
  <2>1. W!Calling(r, u) = [k \in 1 .. Len(r) |-> With(r[k], u)]
    BY Zenon, CallingIs
  <2>2. \A k \in 1 .. Len(r) : With(r[k], u) \in Q
    OBVIOUS
  <2> HIDE DEF Q
  <2>3. Len(r) \in Nat
    OBVIOUS
  <2>4. QED
    BY SMTT(60), SMTT(90), <2>1, <2>2, <2>3
<1> HIDE DEF Q
<1>5. /\ W!Calling(p, u) \o W!Calling(q, u) \in Seq(Q)
      /\ Len(W!Calling(p, u) \o W!Calling(q, u)) = Len(p) + Len(q)
      /\ \A k \in 1 .. Len(p) + Len(q) :
           (W!Calling(p, u) \o W!Calling(q, u))[k] =
               IF k <= Len(p) THEN W!Calling(p, u)[k] ELSE W!Calling(q, u)[k - Len(p)]
  <2>1. /\ W!Calling(p, u) \in Seq(Q) /\ W!Calling(q, u) \in Seq(Q)
        /\ Len(W!Calling(p, u)) = Len(p) /\ Len(W!Calling(q, u)) = Len(q)
    BY Zenon, <1>2, <1>4
  <2> DEFINE y == W!Calling(p, u)
             z == W!Calling(q, u)
  <2>2. y \in Seq(Q) /\ z \in Seq(Q) /\ Len(y) = Len(p) /\ Len(z) = Len(q)
    BY Zenon, <2>1
  <2> HIDE DEF y, z
  <2>3. /\ y \o z \in Seq(Q) /\ Len(y \o z) = Len(y) + Len(z)
        /\ \A k \in 1 .. Len(y) + Len(z) :
             (y \o z)[k] = IF k <= Len(y) THEN y[k] ELSE z[k - Len(y)]
    BY SMTT(60), SMTT(90), <2>2
  <2>4. QED
    BY <2>2, <2>3, Zenon DEF y, z
<1>6. Len(p) \in Nat /\ Len(q) \in Nat
  BY SMTT(60), SMTT(90), <1>2
<1>7. ASSUME NEW k \in 1 .. Len(p) + Len(q)
      PROVE  W!Calling(p \o q, u)[k] = (W!Calling(p, u) \o W!Calling(q, u))[k]
  <2>1. W!Calling(p \o q, u)[k] = With((p \o q)[k], u)
    BY ZenonT(60), <1>3, <1>4
  <2>2. CASE k <= Len(p)
    BY SMTT(60), SMTT(90), <1>2, <1>3, <1>4, <1>5, <1>6, <2>1, <2>2
  <2>3. CASE ~(k <= Len(p))
    BY SMTT(60), SMTT(90), <1>2, <1>3, <1>4, <1>5, <1>6, <2>1, <2>3
  <2>4. QED
    BY Zenon, <2>2, <2>3
<1>8. W!Calling(p \o q, u) \in Seq(Q) /\ Len(W!Calling(p \o q, u)) = Len(p) + Len(q)
  BY Zenon, <1>3, <1>4
<1> DEFINE left == W!Calling(p \o q, u)
           right == W!Calling(p, u) \o W!Calling(q, u)
<1>9. /\ left \in Seq(Q) /\ right \in Seq(Q) /\ Len(left) = Len(right)
      /\ \A k \in 1 .. Len(left) : left[k] = right[k]
  BY Zenon, <1>5, <1>7, <1>8
<1> HIDE DEF left, right
<1>10. left = right
  BY SMTT(60), SMTT(90), <1>9
<1>11. QED
  BY Zenon, <1>10 DEF left, right

\* The conversion of a path or name, called with something held: the text is held
\* as well, or nothing is.
LEMMA WidePasses ==
    ASSUME NEW c, NEW w, NEW h, NEW f, NEW e, NEW u, h \subseteq u, u \cap f = {}
    PROVE  Passes(c, W!Calling(<<W!Test({}), W!Step({w}, {}), W!Test({w})>>, u),
                  State(h, f, e), State(h \cup {w}, f \ {w}, e))
<1> DEFINE s1 == With(W!Test({}), u)
           s2 == With(W!Step({w}, {}), u)
           s3 == With(W!Test({w}), u)
           t0 == State(h, f, e)
           t1 == State(h \cup {w}, f \ {w}, e)
<1>1. W!Calling(<<W!Test({}), W!Step({w}, {}), W!Test({w})>>, u) = <<s1, s2, s3>>
  BY SMTT(60), SMTT(90), Calling3
<1>2. Goes(c, s1, t0, t0)
  BY Zenon DEF Goes, After, State, With, W!Test, W!Step
<1>3. Goes(c, s2, t0, t1)
  BY Zenon DEF Goes, After, State, With, W!Step
<1>4. Goes(c, s3, t1, t1)
  BY Zenon DEF Goes, After, State, With, W!Test, W!Step
<1> HIDE DEF s1, s2, s3, t0, t1
<1>5. Passes(c, <<s1, s2, s3>>, t0, t1)
  BY <1>2, <1>3, <1>4, Passes3, Zenon
<1>6. QED
  BY <1>1, <1>5, Zenon DEF t0, t1

\* The same at the start of a function.
LEMMA WideFirst ==
    ASSUME NEW c, NEW w
    PROVE  Passes(c, <<W!Test({}), W!Step({w}, {}), W!Test({w})>>, Start, Only({w}))
<1> DEFINE s1 == W!Test({})
           s2 == W!Step({w}, {})
           s3 == W!Test({w})
           t0 == Start
           t1 == Only({w})
<1>1. Goes(c, s1, t0, t0) /\ Goes(c, s2, t0, t1) /\ Goes(c, s3, t1, t1)
  BY Zenon DEF Goes, After, State, Start, Only, W!Test, W!Step
<1> HIDE DEF s1, s2, s3, t0, t1
<1>2. Passes(c, <<s1, s2, s3>>, t0, t1)
  BY <1>1, Passes3, Zenon
<1>3. QED
  BY Zenon, <1>2 DEF s1, s2, s3, t0, t1

\* The constructor and the destructor of a class with one constructor.
LEMMA PinnedIs ==
    ASSUME NEW r, NEW create, NEW destroys, NEW p, r = W!Pinned({create}, destroys), p \in r.create
    PROVE  p = create /\ r.destroys = destroys
BY Zenon DEF W!Pinned

\* The constructor of xlib::thread.
LEMMA ThreadClean ==
    ASSUME NEW b \in W!Builds, NEW p \in W!Class("thread", b).create
    PROVE  Clean("thread", b, p, Start)
<1>1. W!Class("thread", b) = W!thread(b)
  BY Zenon DEF W!Class
<1>2. /\ p = <<W!Step({"function"}, {})>> \o W!Calling(W!x_thread_create, {"function"})
      /\ W!Class("thread", b).destroys = W!x_thread_destroy(b, FALSE)
  BY ZenonT(60), <1>1 DEF W!thread, W!Movable, W!Pinned
<1>3. QED
  <2> DEFINE s1 == W!Step({"function"}, {})
             s2 == With(W!Step({"created"}, {}), {"function"})
             s3 == With(W!Step({"thread"}, {"created"}), {"function"})
             t0 == Start
             t1 == Only({"function"})
             t2 == Only({"function", "created"})
             t3 == Only({"function", "created", "thread"})
  <2>1. p = <<s1>> \o <<s2, s3>>
    BY Zenon, <1>2, Calling2 DEF W!x_thread_create
  <2>2. /\ Goes("thread", s1, t0, t1) /\ Goes("thread", s2, t1, t2)
        /\ Goes("thread", s3, t2, t3)
    BY Zenon DEF Goes, After, State, Start, Only, W!Step, With
  <2>3. Ends("thread", b, t3)
    BY Zenon, <1>2 DEF Ends, Destroyable, Only, State, Start
  <2> HIDE DEF s1, s2, s3, t0, t1, t2, t3
  <2>4. Passes("thread", <<s1>>, t0, t1) /\ Passes("thread", <<s2, s3>>, t1, t3)
    BY <2>2, Passes1, Passes2, Zenon
  <2>5. Passes("thread", <<s1>> \o <<s2, s3>>, t0, t3)
    BY <2>4, PassesConcat, Zenon
  <2>6. QED
    BY <2>1, <2>3, <2>5, PassesEnds, Zenon DEF t0

\* x_mutex_create.
LEMMA MutexClean ==
    ASSUME NEW b \in W!Builds, NEW p \in W!Class("mutex", b).create
    PROVE  Clean("mutex", b, p, Start)
<1>1. W!Class("mutex", b) = W!mutex(b)
  BY Zenon DEF W!Class
<1>2. /\ p = W!x_mutex_create_with_type(b, FALSE)
      /\ W!Class("mutex", b).destroys = W!x_mutex_destroy(b, FALSE)
  BY <1>1, PinnedIs, Zenon DEF W!mutex
<1>3. CASE b = "windows"
  <2> DEFINE s1 == W!Step({"created"}, {})
             s2 == W!Sure(W!Step({}, {}))
             t0 == Start
             t1 == Only({"created"})
  <2>1. p = <<s1, s2>>
    BY Zenon, <1>2, <1>3 DEF W!x_mutex_create_with_type
  <2>2. Goes("mutex", s1, t0, t1) /\ Goes("mutex", s2, t1, t1)
    BY Zenon DEF Goes, After, State, Start, Only, W!Step, W!Sure
  <2>3. Ends("mutex", b, t1)
    BY Zenon, <1>2, <1>3 DEF Ends, Destroyable, Only, State, Start, W!x_mutex_destroy
  <2> HIDE DEF s1, s2, t0, t1
  <2>4. Passes("mutex", <<s1, s2>>, t0, t1)
    BY <2>2, Passes2, Zenon
  <2>5. QED
    BY <2>1, <2>3, <2>4, PassesEnds, Zenon DEF t0
<1>4. CASE b # "windows"
  <2> DEFINE s1 == W!Step({"created"}, {})
             s2 == W!Step({"attr"}, {"created"})
             s3 == W!Test({"attr", "created"})
             s4 == W!Dropping(W!Step({"lock"}, {"attr", "created"}), {"attr"})
             t0 == Start
             t1 == Only({"created"})
             t2 == Only({"created", "attr"})
             t3 == State({"created", "lock"}, {"attr"}, {})
  <2>1. p = <<s1, s2, s3, s4>>
    BY Zenon, <1>2, <1>4 DEF W!x_mutex_create_with_type
  <2>2. /\ Goes("mutex", s1, t0, t1) /\ Goes("mutex", s2, t1, t2)
        /\ Goes("mutex", s3, t2, t2) /\ Goes("mutex", s4, t2, t3)
    BY Zenon DEF Goes, After, State, Start, Only, W!Dropping, W!Step, W!Test
  <2>3. Ends("mutex", b, t3)
    BY Zenon, <1>2, <1>4 DEF Ends, Destroyable, Only, State, Start, W!x_mutex_destroy
  <2> HIDE DEF s1, s2, s3, s4, t0, t1, t2, t3
  <2>4. Passes("mutex", <<s1, s2, s3, s4>>, t0, t3)
    BY <2>2, Passes4, Zenon
  <2>5. QED
    BY <2>1, <2>3, <2>4, PassesEnds, Zenon DEF t0
<1>5. QED
  BY Zenon, <1>3, <1>4

\* x_mutex_create_recursive.
LEMMA RecursiveMutexClean ==
    ASSUME NEW b \in W!Builds, NEW p \in W!Class("recursive_mutex", b).create
    PROVE  Clean("recursive_mutex", b, p, Start)
<1>1. W!Class("recursive_mutex", b) = W!recursive_mutex(b)
  BY Zenon DEF W!Class
<1>2. /\ p = W!x_mutex_create_with_type(b, TRUE)
      /\ W!Class("recursive_mutex", b).destroys = W!x_mutex_destroy(b, TRUE)
  BY <1>1, PinnedIs, Zenon DEF W!recursive_mutex
<1>3. CASE b = "windows"
  <2> DEFINE s1 == W!Step({"created"}, {})
             s2 == W!Sure(W!Step({"lock"}, {}))
             t0 == Start
             t1 == Only({"created"})
             t2 == Only({"created", "lock"})
  <2>1. p = <<s1, s2>>
    BY Zenon, <1>2, <1>3 DEF W!x_mutex_create_with_type
  <2>2. Goes("recursive_mutex", s1, t0, t1) /\ Goes("recursive_mutex", s2, t1, t2)
    BY Zenon DEF Goes, After, State, Start, Only, W!Step, W!Sure
  <2>3. Ends("recursive_mutex", b, t2)
    BY Zenon, <1>2, <1>3 DEF Ends, Destroyable, Only, State, Start, W!x_mutex_destroy
  <2> HIDE DEF s1, s2, t0, t1, t2
  <2>4. Passes("recursive_mutex", <<s1, s2>>, t0, t2)
    BY <2>2, Passes2, Zenon
  <2>5. QED
    BY <2>1, <2>3, <2>4, PassesEnds, Zenon DEF t0
<1>4. CASE b # "windows"
  <2> DEFINE s1 == W!Step({"created"}, {})
             s2 == W!Step({"attr"}, {"created"})
             s3 == W!Test({"attr", "created"})
             s4 == W!Dropping(W!Step({"lock"}, {"attr", "created"}), {"attr"})
             t0 == Start
             t1 == Only({"created"})
             t2 == Only({"created", "attr"})
             t3 == State({"created", "lock"}, {"attr"}, {})
  <2>1. p = <<s1, s2, s3, s4>>
    BY Zenon, <1>2, <1>4 DEF W!x_mutex_create_with_type
  <2>2. /\ Goes("recursive_mutex", s1, t0, t1) /\ Goes("recursive_mutex", s2, t1, t2)
        /\ Goes("recursive_mutex", s3, t2, t2) /\ Goes("recursive_mutex", s4, t2, t3)
    BY Zenon DEF Goes, After, State, Start, Only, W!Dropping, W!Step, W!Test
  <2>3. Ends("recursive_mutex", b, t3)
    BY Zenon, <1>2, <1>4 DEF Ends, Destroyable, Only, State, Start, W!x_mutex_destroy
  <2> HIDE DEF s1, s2, s3, s4, t0, t1, t2, t3
  <2>4. Passes("recursive_mutex", <<s1, s2, s3, s4>>, t0, t3)
    BY <2>2, Passes4, Zenon
  <2>5. QED
    BY <2>1, <2>3, <2>4, PassesEnds, ZenonT(60) DEF t0
<1>5. QED
  BY Zenon, <1>3, <1>4

\* x_condition_create.
LEMMA ConditionClean ==
    ASSUME NEW b \in W!Builds, NEW p \in W!Class("condition", b).create
    PROVE  Clean("condition", b, p, Start)
<1>1. W!Class("condition", b) = W!condition(b)
  BY Zenon DEF W!Class
<1>2. /\ p = W!x_condition_create(b)
      /\ W!Class("condition", b).destroys = W!x_condition_destroy(b)
  BY SMTT(60), SMTT(90), <1>1 DEF W!condition, W!Pinned
<1>3. CASE b = "windows"
  <2> DEFINE s1 == W!Step({"created"}, {})
             t0 == Start
             t1 == Only({"created"})
  <2>1. p = <<s1>>
    BY SMTT(60), SMTT(90), <1>2, <1>3 DEF W!x_condition_create
  <2>2. Goes("condition", s1, t0, t1)
    BY Zenon DEF Goes, After, State, Start, Only, W!Step
  <2>3. Ends("condition", b, t1)
    BY Zenon, <1>2, <1>3 DEF Ends, Destroyable, Only, State, Start, W!x_condition_destroy
  <2> HIDE DEF s1, t0, t1
  <2>4. Passes("condition", <<s1>>, t0, t1)
    BY <2>2, Passes1, Zenon
  <2>5. QED
    BY <2>1, <2>3, <2>4, PassesEnds, Zenon DEF t0
<1>4. CASE b # "windows"
  <2> DEFINE s1 == W!Step({"created"}, {})
             s2 == W!Step({"condition"}, {"created"})
             t0 == Start
             t1 == Only({"created"})
             t2 == Only({"created", "condition"})
  <2>1. p = <<s1>> \o <<s2>>
    BY Zenon, <1>2, <1>4 DEF W!x_condition_create
  <2>2. Goes("condition", s1, t0, t1) /\ Goes("condition", s2, t1, t2)
    BY Zenon DEF Goes, After, State, Start, Only, W!Step
  <2>3. Ends("condition", b, t2)
    BY Zenon, <1>2, <1>4 DEF Ends, Destroyable, Only, State, Start, W!x_condition_destroy
  <2> HIDE DEF s1, s2, t0, t1, t2
  <2>4. Passes("condition", <<s1>>, t0, t1) /\ Passes("condition", <<s2>>, t1, t2)
    BY <2>2, Passes1, Zenon
  <2>5. Passes("condition", <<s1>> \o <<s2>>, t0, t2)
    BY <2>4, PassesConcat, Zenon
  <2>6. QED
    BY <2>1, <2>3, <2>5, PassesEnds, Zenon DEF t0
<1>5. QED
  BY Zenon, <1>3, <1>4

\* x_semaphore_create.
LEMMA SemaphoreClean ==
    ASSUME NEW b \in W!Builds, NEW p \in W!Class("semaphore", b).create
    PROVE  Clean("semaphore", b, p, Start)
<1>1. W!Class("semaphore", b) = W!semaphore(b)
  BY Zenon DEF W!Class
<1>2. /\ p = W!x_semaphore_create(b)
      /\ W!Class("semaphore", b).destroys = W!x_semaphore_destroy(b)
  BY SMTT(60), SMTT(90), <1>1 DEF W!semaphore, W!Pinned
<1>3. CASE b = "windows"
  <2> DEFINE s1 == W!Step({"created"}, {})
             s2 == W!Sure(W!Step({"mutex"}, {}))
             t0 == Start
             t1 == Only({"created"})
             t2 == Only({"created", "mutex"})
  <2>1. p = <<s1>> \o <<s2>>
    BY Zenon, <1>2, <1>3 DEF W!x_semaphore_create
  <2>2. Goes("semaphore", s1, t0, t1) /\ Goes("semaphore", s2, t1, t2)
    BY Zenon DEF Goes, After, State, Start, Only, W!Step, W!Sure
  <2>3. Ends("semaphore", b, t2)
    BY Zenon, <1>2, <1>3 DEF Ends, Destroyable, Only, State, Start, W!x_semaphore_destroy
  <2> HIDE DEF s1, s2, t0, t1, t2
  <2>4. Passes("semaphore", <<s1>>, t0, t1) /\ Passes("semaphore", <<s2>>, t1, t2)
    BY <2>2, Passes1, Zenon
  <2>5. Passes("semaphore", <<s1>> \o <<s2>>, t0, t2)
    BY <2>4, PassesConcat, ZenonT(60)
  <2>6. QED
    BY <2>1, <2>3, <2>5, PassesEnds, ZenonT(60) DEF t0
<1>4. CASE b # "windows"
  <2> DEFINE s1 == W!Step({"created"}, {})
             s2 == W!Step({"mutex"}, {"created"})
             s3 == W!Step({"condition"}, {"mutex", "created"})
             t0 == Start
             t1 == Only({"created"})
             t2 == Only({"created", "mutex"})
             t3 == Only({"created", "mutex", "condition"})
  <2>1. p = <<s1>> \o <<s2, s3>>
    BY ZenonT(60), <1>2, <1>4 DEF W!x_semaphore_create
  <2>2. /\ Goes("semaphore", s1, t0, t1) /\ Goes("semaphore", s2, t1, t2)
        /\ Goes("semaphore", s3, t2, t3)
    BY DEF Goes, After, State, Start, Only, W!Step
  <2>3. Ends("semaphore", b, t3)
    BY Zenon, <1>2, <1>4 DEF Ends, Destroyable, Only, State, Start, W!x_semaphore_destroy
  <2> HIDE DEF s1, s2, s3, t0, t1, t2, t3
  <2>4. Passes("semaphore", <<s1>>, t0, t1) /\ Passes("semaphore", <<s2, s3>>, t1, t3)
    BY <2>2, Passes1, Passes2, ZenonT(60)
  <2>5. Passes("semaphore", <<s1>> \o <<s2, s3>>, t0, t3)
    BY <2>4, PassesConcat, Zenon
  <2>6. QED
    BY <2>1, <2>3, <2>5, PassesEnds, ZenonT(60) DEF t0
<1>5. QED
  BY Zenon, <1>3, <1>4

\* x_file_open.
LEMMA FileClean ==
    ASSUME NEW b \in W!Builds, NEW p \in W!Class("file", b).create
    PROVE  Clean("file", b, p, Start)
<1>1. W!Class("file", b) = W!file(b)
  BY Zenon DEF W!Class
<1>2. /\ p = W!x_file_open(b)
      /\ W!Class("file", b).destroys = W!x_file_close(b)
  BY Zenon, <1>1 DEF W!file, W!Reopening, W!Movable, W!Pinned
<1>3. CASE b = "windows"
  <2> DEFINE s1 == W!Step({"created"}, {})
             w1 == W!Calling(W!x_filesystem_utf8_to_wide("wide_path"), {"created"})
             s2 == W!Dropping(W!Step({"handle"}, {"wide_path", "created"}), {"wide_path"})
             s3 == W!Test({"handle", "created"})
             t0 == Start
             t1 == Only({"created"})
             t2 == Only({"created", "wide_path"})
             t3 == State({"created", "handle"}, {"wide_path"}, {})
  <2>1. p = <<s1>> \o (w1 \o <<s2, s3>>)
    BY Zenon, <1>2, <1>3 DEF W!x_file_open
  <2>2. Goes("file", s1, t0, t1) /\ Goes("file", s2, t2, t3) /\ Goes("file", s3, t3, t3)
    BY Zenon DEF Goes, After, State, Start, Only, W!Dropping, W!Step, W!Test
  <2>3. Ends("file", b, t3)
    BY Zenon, <1>2, <1>3 DEF Ends, Destroyable, Only, State, Start, W!x_file_close
  <2>4. Passes("file", w1, t1, t2)
    <3>1. {"created"} \subseteq {"created"} /\ {"created"} \cap {} = {}
      OBVIOUS
    <3>2. Passes("file", w1,
                 State({"created"}, {}, {}),
                 State({"created"} \cup {"wide_path"}, {} \ {"wide_path"}, {}))
      BY <3>1, WidePasses, Zenon DEF W!x_filesystem_utf8_to_wide
    <3>3. QED
      BY Zenon, <3>2 DEF State, Only
  <2> HIDE DEF s1, w1, s2, s3, t0, t1, t2, t3
  <2>5. Passes("file", <<s1>>, t0, t1) /\ Passes("file", <<s2, s3>>, t2, t3)
    BY <2>2, Passes1, Passes2, ZenonT(60)
  <2>6. Passes("file", w1 \o <<s2, s3>>, t1, t3)
    BY <2>4, <2>5, PassesConcat, Zenon
  <2>7. Passes("file", <<s1>> \o (w1 \o <<s2, s3>>), t0, t3)
    BY <2>5, <2>6, PassesConcat, Zenon
  <2>8. QED
    BY <2>1, <2>3, <2>7, PassesEnds, ZenonT(60) DEF t0
<1>4. CASE b # "windows"
  <2> DEFINE s1 == W!Step({"created"}, {})
             s2 == W!Step({"fd"}, {"created"})
             t0 == Start
             t1 == Only({"created"})
             t2 == Only({"created", "fd"})
  <2>1. p = <<s1>> \o <<s2>>
    BY ZenonT(60), <1>2, <1>4 DEF W!x_file_open
  <2>2. Goes("file", s1, t0, t1) /\ Goes("file", s2, t1, t2)
    BY DEF Goes, After, State, Start, Only, W!Step
  <2>3. Ends("file", b, t2)
    BY Zenon, <1>2, <1>4 DEF Ends, Destroyable, Only, State, Start, W!x_file_close
  <2> HIDE DEF s1, s2, t0, t1, t2
  <2>4. Passes("file", <<s1>>, t0, t1) /\ Passes("file", <<s2>>, t1, t2)
    BY <2>2, Passes1, Zenon
  <2>5. Passes("file", <<s1>> \o <<s2>>, t0, t2)
    BY <2>4, PassesConcat, Zenon
  <2>6. QED
    BY <2>1, <2>3, <2>5, PassesEnds, Zenon DEF t0
<1>5. QED
  BY ZenonT(60), <1>3, <1>4

\* x_dynamic_library_open.
LEMMA DynamicLibraryClean ==
    ASSUME NEW b \in W!Builds, NEW p \in W!Class("dynamic_library", b).create
    PROVE  Clean("dynamic_library", b, p, Start)
<1>1. W!Class("dynamic_library", b) = W!dynamic_library(b)
  BY Zenon DEF W!Class
<1>2. /\ p = W!x_dynamic_library_open(b)
      /\ W!Class("dynamic_library", b).destroys = W!x_dynamic_library_close
  BY Zenon, <1>1 DEF W!dynamic_library, W!Reopening, W!Movable, W!Pinned
<1>3. CASE b = "windows"
  <2> DEFINE s1 == W!Step({"created"}, {})
             w1 == W!Calling(W!x_dynamic_library_utf8_to_wide("wide_path"), {"created"})
             s2 == W!Dropping(W!Step({"handle"}, {"wide_path", "created"}), {"wide_path"})
             t0 == Start
             t1 == Only({"created"})
             t2 == Only({"created", "wide_path"})
             t3 == State({"created", "handle"}, {"wide_path"}, {})
  <2>1. p = <<s1>> \o (w1 \o <<s2>>)
    BY Zenon, <1>2, <1>3 DEF W!x_dynamic_library_open
  <2>2. Goes("dynamic_library", s1, t0, t1) /\ Goes("dynamic_library", s2, t2, t3)
    BY Zenon DEF Goes, After, State, Start, Only, W!Dropping, W!Step
  <2>3. Ends("dynamic_library", b, t3)
    BY Zenon, <1>2, <1>3 DEF Ends, Destroyable, Only, State, Start, W!x_dynamic_library_close
  <2>4. Passes("dynamic_library", w1, t1, t2)
    <3>1. {"created"} \subseteq {"created"} /\ {"created"} \cap {} = {}
      OBVIOUS
    <3>2. Passes("dynamic_library", w1,
                 State({"created"}, {}, {}),
                 State({"created"} \cup {"wide_path"}, {} \ {"wide_path"}, {}))
      BY <3>1, WidePasses, Zenon DEF W!x_dynamic_library_utf8_to_wide
    <3>3. QED
      BY Zenon, <3>2 DEF State, Only
  <2> HIDE DEF s1, w1, s2, t0, t1, t2, t3
  <2>5. /\ Passes("dynamic_library", <<s1>>, t0, t1)
        /\ Passes("dynamic_library", <<s2>>, t2, t3)
    BY <2>2, Passes1, Zenon
  <2>6. Passes("dynamic_library", w1 \o <<s2>>, t1, t3)
    BY <2>4, <2>5, PassesConcat, Zenon
  <2>7. Passes("dynamic_library", <<s1>> \o (w1 \o <<s2>>), t0, t3)
    BY <2>5, <2>6, PassesConcat, Zenon
  <2>8. QED
    BY <2>1, <2>3, <2>7, PassesEnds, Zenon DEF t0
<1>4. CASE b # "windows"
  <2> DEFINE s1 == W!Step({"created"}, {})
             s2 == W!Step({"handle"}, {"created"})
             t0 == Start
             t1 == Only({"created"})
             t2 == Only({"created", "handle"})
  <2>1. p = <<s1>> \o <<s2>>
    BY Zenon, <1>2, <1>4 DEF W!x_dynamic_library_open
  <2>2. Goes("dynamic_library", s1, t0, t1) /\ Goes("dynamic_library", s2, t1, t2)
    BY Zenon DEF Goes, After, State, Start, Only, W!Step
  <2>3. Ends("dynamic_library", b, t2)
    BY Zenon, <1>2, <1>4 DEF Ends, Destroyable, Only, State, Start, W!x_dynamic_library_close
  <2> HIDE DEF s1, s2, t0, t1, t2
  <2>4. /\ Passes("dynamic_library", <<s1>>, t0, t1)
        /\ Passes("dynamic_library", <<s2>>, t1, t2)
    BY <2>2, Passes1, Zenon
  <2>5. Passes("dynamic_library", <<s1>> \o <<s2>>, t0, t2)
    BY <2>4, PassesConcat, Zenon
  <2>6. QED
    BY <2>1, <2>3, <2>5, PassesEnds, Zenon DEF t0
<1>5. QED
  BY Zenon, <1>3, <1>4

\* x_tls_key_create.
LEMMA TlsKeyClean ==
    ASSUME NEW b \in W!Builds, NEW p \in W!Class("tls_key", b).create
    PROVE  Clean("tls_key", b, p, Start)
<1>1. W!Class("tls_key", b) = W!TlsKey(b)
  BY Zenon DEF W!Class
<1>2. /\ p = W!x_tls_key_create
      /\ W!Class("tls_key", b).destroys = W!x_tls_key_destroy
  BY SMTT(60), SMTT(90), <1>1 DEF W!TlsKey, W!Pinned
<1>3. QED
  <2> DEFINE s1 == W!Step({"created"}, {})
             s2 == W!Step({"key"}, {"created"})
             t0 == Start
             t1 == Only({"created"})
             t2 == Only({"created", "key"})
  <2>1. p = <<s1, s2>>
    BY ZenonT(60), <1>2 DEF W!x_tls_key_create
  <2>2. Goes("tls_key", s1, t0, t1) /\ Goes("tls_key", s2, t1, t2)
    BY DEF Goes, After, State, Start, Only, W!Step
  <2>3. Ends("tls_key", b, t2)
    BY Zenon, <1>2 DEF Ends, Destroyable, Only, State, Start, W!x_tls_key_destroy
  <2> HIDE DEF s1, s2, t0, t1, t2
  <2>4. Passes("tls_key", <<s1, s2>>, t0, t2)
    BY <2>2, Passes2, Zenon
  <2>5. QED
    BY <2>1, <2>3, <2>4, PassesEnds, Zenon DEF t0

\* x_tls_context_create.
LEMMA TlsContextClean ==
    ASSUME NEW b \in W!Builds, NEW p \in W!Class("tls_context", b).create
    PROVE  Clean("tls_context", b, p, Start)
<1>1. W!Class("tls_context", b) = W!TlsContext(b)
  BY Zenon DEF W!Class
<1>2. /\ p = W!x_tls_context_create
      /\ W!Class("tls_context", b).destroys = W!x_tls_context_destroy
  BY SMTT(60), SMTT(90), <1>1 DEF W!TlsContext, W!Pinned
<1>3. QED
  <2> DEFINE s1 == W!Step({"created"}, {})
             t0 == Start
             t1 == Only({"created"})
  <2>1. p = <<s1>>
    BY Zenon, <1>2 DEF W!x_tls_context_create
  <2>2. Goes("tls_context", s1, t0, t1)
    BY Zenon DEF Goes, After, State, Start, Only, W!Step
  <2>3. Ends("tls_context", b, t1)
    BY Zenon, <1>2 DEF Ends, Destroyable, Only, State, Start, W!x_tls_context_destroy
  <2> HIDE DEF s1, t0, t1
  <2>4. Passes("tls_context", <<s1>>, t0, t1)
    BY <2>2, Passes1, Zenon
  <2>5. QED
    BY <2>1, <2>3, <2>4, PassesEnds, ZenonT(60) DEF t0

\* x_virtual_memory_alloc.
LEMMA VirtualMemoryClean ==
    ASSUME NEW b \in W!Builds, NEW p \in W!Class("virtual_memory", b).create
    PROVE  Clean("virtual_memory", b, p, Start)
<1>1. W!Class("virtual_memory", b) = W!VirtualMemory(b)
  BY Zenon DEF W!Class
<1>2. /\ p = W!x_virtual_memory_alloc
      /\ W!Class("virtual_memory", b).destroys = W!x_virtual_memory_free
  BY SMTT(60), SMTT(90), <1>1 DEF W!VirtualMemory, W!Pinned
<1>3. QED
  <2> DEFINE s1 == W!Test({})
             s2 == W!Step({"pages"}, {})
             t0 == Start
             t1 == Only({"pages"})
  <2>1. p = <<s1, s2>>
    BY Zenon, <1>2 DEF W!x_virtual_memory_alloc
  <2>2. Goes("virtual_memory", s1, t0, t0) /\ Goes("virtual_memory", s2, t0, t1)
    BY Zenon DEF Goes, After, State, Start, Only, W!Step, W!Test
  <2>3. Ends("virtual_memory", b, t1)
    BY Zenon, <1>2 DEF Ends, Destroyable, Only, State, Start, W!x_virtual_memory_free
  <2> HIDE DEF s1, s2, t0, t1
  <2>4. Passes("virtual_memory", <<s1, s2>>, t0, t1)
    BY <2>2, Passes2, Zenon
  <2>5. QED
    BY <2>1, <2>3, <2>4, PassesEnds, Zenon DEF t0

\* x_mapped_file_create and x_mapped_file_open.
LEMMA MappedFileClean ==
    ASSUME NEW b \in W!Builds, NEW p \in W!Class("mapped_file", b).create
    PROVE  Clean("mapped_file", b, p, Start)
<1>1. W!Class("mapped_file", b) = W!mapped_file(b)
  BY Zenon DEF W!Class
<1>2. /\ p = W!x_mapped_file_create(b) \/ p = W!x_mapped_file_open(b)
      /\ W!Class("mapped_file", b).destroys = W!x_mapped_file_destroy
  BY ZenonT(60), <1>1 DEF W!mapped_file, W!Reopening, W!Movable, W!Pinned
<1>3. CASE p = W!x_mapped_file_create(b) /\ b = "windows"
  <2> DEFINE s1 == W!Step({"created"}, {})
             s2 == W!Test({"created"})
             s3 == W!Step({"file"}, {"created"})
             s4 == W!Test({"file", "created"})
             s5 == W!Step({"mapping"}, {"file", "created"})
             s6 == W!Step({"data"}, {"mapping", "file", "created"})
             t0 == Start
             t1 == Only({"created"})
             t2 == Only({"created", "file"})
             t3 == Only({"created", "file", "mapping"})
             t4 == Only({"created", "file", "mapping", "data"})
  <2>1. p = <<s1>> \o <<s2, s3, s4, s5, s6>>
    BY Zenon, <1>2, <1>3 DEF W!x_mapped_file_create
  <2>2. /\ Goes("mapped_file", s1, t0, t1) /\ Goes("mapped_file", s2, t1, t1)
        /\ Goes("mapped_file", s3, t1, t2) /\ Goes("mapped_file", s4, t2, t2)
        /\ Goes("mapped_file", s5, t2, t3) /\ Goes("mapped_file", s6, t3, t4)
    BY Zenon DEF Goes, After, State, Start, Only, W!Step, W!Test
  <2>3. Ends("mapped_file", b, t4)
    BY Zenon, <1>2, <1>3 DEF Ends, Destroyable, Only, State, Start, W!x_mapped_file_destroy
  <2> HIDE DEF s1, s2, s3, s4, s5, s6, t0, t1, t2, t3, t4
  <2>4. /\ Passes("mapped_file", <<s1>>, t0, t1)
        /\ Passes("mapped_file", <<s2, s3, s4, s5, s6>>, t1, t4)
    BY <2>2, Passes1, Passes5, Zenon
  <2>5. Passes("mapped_file", <<s1>> \o <<s2, s3, s4, s5, s6>>, t0, t4)
    BY <2>4, PassesConcat, Zenon
  <2>6. QED
    BY <2>1, <2>3, <2>5, PassesEnds, ZenonT(60) DEF t0
<1>4. CASE p = W!x_mapped_file_create(b) /\ b # "windows"
  <2> DEFINE s1 == W!Step({"created"}, {})
             s2 == W!Step({"file"}, {"created"})
             s3 == W!Test({"file", "created"})
             s4 == W!Step({"data"}, {"file", "created"})
             t0 == Start
             t1 == Only({"created"})
             t2 == Only({"created", "file"})
             t3 == Only({"created", "file", "data"})
  <2>1. p = <<s1>> \o <<s2, s3, s4>>
    BY Zenon, <1>2, <1>4 DEF W!x_mapped_file_create
  <2>2. /\ Goes("mapped_file", s1, t0, t1) /\ Goes("mapped_file", s2, t1, t2)
        /\ Goes("mapped_file", s3, t2, t2) /\ Goes("mapped_file", s4, t2, t3)
    BY Zenon DEF Goes, After, State, Start, Only, W!Step, W!Test
  <2>3. Ends("mapped_file", b, t3)
    BY Zenon, <1>2, <1>4 DEF Ends, Destroyable, Only, State, Start, W!x_mapped_file_destroy
  <2> HIDE DEF s1, s2, s3, s4, t0, t1, t2, t3
  <2>4. /\ Passes("mapped_file", <<s1>>, t0, t1)
        /\ Passes("mapped_file", <<s2, s3, s4>>, t1, t3)
    BY <2>2, Passes1, Passes3, Zenon
  <2>5. Passes("mapped_file", <<s1>> \o <<s2, s3, s4>>, t0, t3)
    BY <2>4, PassesConcat, Zenon
  <2>6. QED
    BY <2>1, <2>3, <2>5, PassesEnds, Zenon DEF t0
<1>5. CASE p = W!x_mapped_file_open(b) /\ b = "windows"
  <2> DEFINE s1 == W!Test({})
             s2 == W!Step({"created"}, {})
             s3 == W!Step({"file"}, {"created"})
             s4 == W!Test({"file", "created"})
             s5 == W!Test({"file", "created"})
             s6 == W!Step({"mapping"}, {"file", "created"})
             s7 == W!Step({"data"}, {"mapping", "file", "created"})
             t0 == Start
             t1 == Only({"created"})
             t2 == Only({"created", "file"})
             t3 == Only({"created", "file", "mapping"})
             t4 == Only({"created", "file", "mapping", "data"})
  <2>1. p = <<s1, s2, s3, s4, s5>> \o <<s6, s7>>
    BY Zenon, <1>2, <1>5 DEF W!x_mapped_file_open
  <2>2. /\ Goes("mapped_file", s1, t0, t0) /\ Goes("mapped_file", s2, t0, t1)
        /\ Goes("mapped_file", s3, t1, t2) /\ Goes("mapped_file", s4, t2, t2)
        /\ Goes("mapped_file", s5, t2, t2) /\ Goes("mapped_file", s6, t2, t3)
        /\ Goes("mapped_file", s7, t3, t4)
    BY Zenon DEF Goes, After, State, Start, Only, W!Step, W!Test
  <2>3. Ends("mapped_file", b, t4)
    BY Zenon, <1>2, <1>5 DEF Ends, Destroyable, Only, State, Start, W!x_mapped_file_destroy
  <2> HIDE DEF s1, s2, s3, s4, s5, s6, s7, t0, t1, t2, t3, t4
  <2>4. /\ Passes("mapped_file", <<s1, s2, s3, s4, s5>>, t0, t2)
        /\ Passes("mapped_file", <<s6, s7>>, t2, t4)
    BY <2>2, Passes2, Passes5, Zenon
  <2>5. Passes("mapped_file", <<s1, s2, s3, s4, s5>> \o <<s6, s7>>, t0, t4)
    BY <2>4, PassesConcat, Zenon
  <2>6. QED
    BY <2>1, <2>3, <2>5, PassesEnds, ZenonT(60) DEF t0
<1>6. CASE p = W!x_mapped_file_open(b) /\ b # "windows"
  <2> DEFINE s1 == W!Test({})
             s2 == W!Step({"created"}, {})
             s3 == W!Step({"file"}, {"created"})
             s4 == W!Test({"file", "created"})
             s5 == W!Test({"file", "created"})
             s6 == W!Step({"data"}, {"file", "created"})
             t0 == Start
             t1 == Only({"created"})
             t2 == Only({"created", "file"})
             t3 == Only({"created", "file", "data"})
  <2>1. p = <<s1, s2, s3, s4, s5>> \o <<s6>>
    BY Zenon, <1>2, <1>6 DEF W!x_mapped_file_open
  <2>2. /\ Goes("mapped_file", s1, t0, t0) /\ Goes("mapped_file", s2, t0, t1)
        /\ Goes("mapped_file", s3, t1, t2) /\ Goes("mapped_file", s4, t2, t2)
        /\ Goes("mapped_file", s5, t2, t2) /\ Goes("mapped_file", s6, t2, t3)
    BY Zenon DEF Goes, After, State, Start, Only, W!Step, W!Test
  <2>3. Ends("mapped_file", b, t3)
    BY Zenon, <1>2, <1>6 DEF Ends, Destroyable, Only, State, Start, W!x_mapped_file_destroy
  <2> HIDE DEF s1, s2, s3, s4, s5, s6, t0, t1, t2, t3
  <2>4. /\ Passes("mapped_file", <<s1, s2, s3, s4, s5>>, t0, t2)
        /\ Passes("mapped_file", <<s6>>, t2, t3)
    BY <2>2, Passes1, Passes5, Zenon
  <2>5. Passes("mapped_file", <<s1, s2, s3, s4, s5>> \o <<s6>>, t0, t3)
    BY <2>4, PassesConcat, Zenon
  <2>6. QED
    BY <2>1, <2>3, <2>5, PassesEnds, ZenonT(60) DEF t0
<1>7. QED
  BY ZenonT(60), <1>2, <1>3, <1>4, <1>5, <1>6

\* x_directory_open and the first advance.
LEMMA DirectoryIteratorClean ==
    ASSUME NEW b \in W!Builds, NEW p \in W!Class("directory_iterator", b).create
    PROVE  Clean("directory_iterator", b, p, Start)
<1>1. W!Class("directory_iterator", b) = W!directory_iterator(b)
  BY Zenon DEF W!Class
<1>2. /\ p = W!x_directory_open(b) \o <<W!Test({})>>
      /\ W!Class("directory_iterator", b).destroys = W!x_directory_close
  BY ZenonT(60), <1>1 DEF W!directory_iterator, W!Movable, W!Pinned
<1>3. CASE b = "windows"
  <2> DEFINE s1 == W!Step({"created"}, {})
             s2 == With(W!Test({}), {"created"})
             w1 == W!Calling(W!x_filesystem_utf8_to_wide("pattern"), {"created"})
             s3 == W!Dropping(W!Step({"handle"}, {"pattern", "created"}), {"pattern"})
             s4 == W!Test({})
             t0 == Start
             t1 == Only({"created"})
             t2 == Only({"created", "pattern"})
             t3 == State({"created", "handle"}, {"pattern"}, {})
  <2>1. p = (<<s1>> \o ((<<s2>> \o w1) \o <<s3>>)) \o <<s4>>
    <3>1. W!x_filesystem_make_search_pattern = <<W!Test({})>> \o W!x_filesystem_utf8_to_wide("pattern")
      BY Zenon DEF W!x_filesystem_make_search_pattern
    <3>2. Sequence(<<W!Test({})>>) /\ Sequence(W!x_filesystem_utf8_to_wide("pattern"))
      BY ShortSequences, Zenon DEF W!x_filesystem_utf8_to_wide
    <3>3. W!Calling(W!x_filesystem_make_search_pattern, {"created"})
            = W!Calling(<<W!Test({})>>, {"created"})
                  \o W!Calling(W!x_filesystem_utf8_to_wide("pattern"), {"created"})
      BY SMTT(60), SMTT(90), <3>1, <3>2, CallingConcat
    <3>4. W!Calling(<<W!Test({})>>, {"created"}) = <<s2>>
      BY Zenon, Calling1
    <3>5. QED
      BY Zenon, <1>2, <1>3, <3>3, <3>4 DEF W!x_directory_open
  <2>2. /\ Goes("directory_iterator", s1, t0, t1) /\ Goes("directory_iterator", s2, t1, t1)
        /\ Goes("directory_iterator", s3, t2, t3) /\ Goes("directory_iterator", s4, t3, t3)
    BY Zenon DEF Goes, After, State, Start, Only, W!Dropping, W!Step, W!Test, With
  <2>3. Ends("directory_iterator", b, t3)
    BY Zenon, <1>2, <1>3 DEF Ends, Destroyable, Only, State, Start, W!x_directory_close
  <2>4. Passes("directory_iterator", w1, t1, t2)
    <3>1. {"created"} \subseteq {"created"} /\ {"created"} \cap {} = {}
      OBVIOUS
    <3>2. Passes("directory_iterator", w1,
                 State({"created"}, {}, {}),
                 State({"created"} \cup {"pattern"}, {} \ {"pattern"}, {}))
      BY <3>1, WidePasses, Zenon DEF W!x_filesystem_utf8_to_wide
    <3>3. QED
      BY Zenon, <3>2 DEF State, Only
  <2> HIDE DEF s1, s2, w1, s3, s4, t0, t1, t2, t3
  <2>5. /\ Passes("directory_iterator", <<s1>>, t0, t1)
        /\ Passes("directory_iterator", <<s2>>, t1, t1)
        /\ Passes("directory_iterator", <<s3>>, t2, t3)
        /\ Passes("directory_iterator", <<s4>>, t3, t3)
    BY <2>2, Passes1, Zenon
  <2>6. Passes("directory_iterator", <<s2>> \o w1, t1, t2)
    BY <2>4, <2>5, PassesConcat, Zenon
  <2>7. Passes("directory_iterator", (<<s2>> \o w1) \o <<s3>>, t1, t3)
    BY <2>5, <2>6, PassesConcat, Zenon
  <2>8. Passes("directory_iterator", <<s1>> \o ((<<s2>> \o w1) \o <<s3>>), t0, t3)
    BY <2>5, <2>7, PassesConcat, Zenon
  <2>9. Passes("directory_iterator", (<<s1>> \o ((<<s2>> \o w1) \o <<s3>>)) \o <<s4>>, t0, t3)
    BY <2>5, <2>8, PassesConcat, Zenon
  <2>10. QED
    BY <2>1, <2>3, <2>9, PassesEnds, Zenon DEF t0
<1>4. CASE b # "windows"
  <2> DEFINE s1 == W!Step({"created"}, {})
             s2 == W!Step({"handle"}, {"created"})
             s3 == W!Test({"handle", "created"})
             s4 == W!Test({})
             t0 == Start
             t1 == Only({"created"})
             t2 == Only({"created", "handle"})
  <2>1. p = (<<s1>> \o <<s2, s3>>) \o <<s4>>
    BY Zenon, <1>2, <1>4 DEF W!x_directory_open
  <2>2. /\ Goes("directory_iterator", s1, t0, t1) /\ Goes("directory_iterator", s2, t1, t2)
        /\ Goes("directory_iterator", s3, t2, t2) /\ Goes("directory_iterator", s4, t2, t2)
    BY Zenon DEF Goes, After, State, Start, Only, W!Step, W!Test
  <2>3. Ends("directory_iterator", b, t2)
    BY Zenon, <1>2, <1>4 DEF Ends, Destroyable, Only, State, Start, W!x_directory_close
  <2> HIDE DEF s1, s2, s3, s4, t0, t1, t2
  <2>4. /\ Passes("directory_iterator", <<s1>>, t0, t1)
        /\ Passes("directory_iterator", <<s2, s3>>, t1, t2)
        /\ Passes("directory_iterator", <<s4>>, t2, t2)
    BY <2>2, Passes1, Passes2, Zenon
  <2>5. Passes("directory_iterator", <<s1>> \o <<s2, s3>>, t0, t2)
    BY <2>4, PassesConcat, Zenon
  <2>6. Passes("directory_iterator", (<<s1>> \o <<s2, s3>>) \o <<s4>>, t0, t2)
    BY <2>4, <2>5, PassesConcat, Zenon
  <2>7. QED
    BY <2>1, <2>3, <2>6, PassesEnds, Zenon DEF t0
<1>5. QED
  BY Zenon, <1>3, <1>4

\* The functions that keep nothing.
LEMMA FunctionsClean ==
    ASSUME NEW b \in W!Builds, NEW p \in W!Class("functions", b).create
    PROVE  Clean("functions", b, p, Start)
<1>1. W!Class("functions", b) = W!Functions(b)
  BY Zenon DEF W!Class
<1>2. /\ \/ p = W!x_file_remove(b) \/ p = W!x_directory_create(b) \/ p = W!x_directory_remove(b)
         \/ p = W!x_environment_get(b) \/ p = W!x_environment_set(b) \/ p = W!x_environment_unset(b)
      /\ W!Class("functions", b).destroys = {}
  BY SMTT(60), SMTT(90), <1>1 DEF W!Functions, W!Pinned
<1>3. CASE /\ \/ p \in {W!x_file_remove(b), W!x_directory_create(b), W!x_directory_remove(b)}
              \/ p \in {W!x_environment_set(b), W!x_environment_unset(b)}
           /\ b # "windows"
  <2> DEFINE s1 == W!Test({})
             t0 == Start
  <2>1. p = <<s1>>
    BY Zenon, <1>2, <1>3 DEF W!x_file_remove, W!x_directory_create, W!x_directory_remove,
       W!x_environment_set, W!x_environment_unset
  <2>2. Goes("functions", s1, t0, t0)
    BY Zenon DEF Goes, After, State, Start, Only, W!Step, W!Test
  <2>3. Ends("functions", b, t0)
    BY Zenon, <1>2, <1>3 DEF Ends, Destroyable, Only, State, Start
  <2> HIDE DEF s1, t0
  <2>4. Passes("functions", <<s1>>, t0, t0)
    BY <2>2, Passes1, Zenon
  <2>5. QED
    BY <2>1, <2>3, <2>4, PassesEnds, Zenon DEF t0
<1>4. CASE p \in {W!x_file_remove(b), W!x_directory_create(b), W!x_directory_remove(b)} /\ b = "windows"
  <2> DEFINE w1 == W!x_filesystem_utf8_to_wide("wide_path")
             s1 == W!Dropping(W!Test({"wide_path"}), {"wide_path"})
             t0 == Start
             t1 == Only({"wide_path"})
             t2 == State({}, {"wide_path"}, {})
  <2>1. p = w1 \o <<s1>>
    BY Zenon, <1>2, <1>4 DEF W!x_file_remove, W!x_directory_create, W!x_directory_remove
  <2>2. Goes("functions", s1, t1, t2)
    BY Zenon DEF Goes, After, State, Start, Only, W!Dropping, W!Step, W!Test
  <2>3. Ends("functions", b, t2)
    BY Zenon, <1>2, <1>4 DEF Ends, Destroyable, Only, State, Start
  <2>4. Passes("functions", w1, t0, t1)
    BY WideFirst, Zenon DEF W!x_filesystem_utf8_to_wide
  <2> HIDE DEF w1, s1, t0, t1, t2
  <2>5. Passes("functions", <<s1>>, t1, t2)
    BY <2>2, Passes1, Zenon
  <2>6. Passes("functions", w1 \o <<s1>>, t0, t2)
    BY <2>4, <2>5, PassesConcat, Zenon
  <2>7. QED
    BY <2>1, <2>3, <2>6, PassesEnds, Zenon DEF t0
<1>5. CASE p = W!x_environment_get(b) /\ b # "windows"
  <2> DEFINE s1 == W!Test({})
             s2 == W!Test({})
             t0 == Start
  <2>1. p = <<s1, s2>>
    BY Zenon, <1>2, <1>5 DEF W!x_environment_get
  <2>2. Goes("functions", s1, t0, t0) /\ Goes("functions", s2, t0, t0)
    BY ZenonT(60) DEF Goes, After, State, Start, Only, W!Step, W!Test
  <2>3. Ends("functions", b, t0)
    BY Zenon, <1>2, <1>5 DEF Ends, Destroyable, Only, State, Start
  <2> HIDE DEF s1, s2, t0
  <2>4. Passes("functions", <<s1, s2>>, t0, t0)
    BY <2>2, Passes2, Zenon
  <2>5. QED
    BY <2>1, <2>3, <2>4, PassesEnds, Zenon DEF t0
<1>6. CASE p = W!x_environment_get(b) /\ b = "windows"
  <2> DEFINE w1 == W!x_process_utf8_to_wide("wide_name")
             s1 == W!Test({"wide_name"})
             s2 == W!Step({"wide_value"}, {"wide_name"})
             s3 == W!Test({"wide_value", "wide_name"})
             s4 == W!Dropping(W!Test({"wide_value", "wide_name"}), {"wide_value", "wide_name"})
             t0 == Start
             t1 == Only({"wide_name"})
             t2 == Only({"wide_name", "wide_value"})
             t3 == State({}, {"wide_value", "wide_name"}, {})
  <2>1. p = w1 \o <<s1, s2, s3, s4>>
    BY Zenon, <1>2, <1>6 DEF W!x_environment_get
  <2>2. /\ Goes("functions", s1, t1, t1) /\ Goes("functions", s2, t1, t2)
        /\ Goes("functions", s3, t2, t2) /\ Goes("functions", s4, t2, t3)
    BY Zenon DEF Goes, After, State, Start, Only, W!Dropping, W!Step, W!Test
  <2>3. Ends("functions", b, t3)
    BY Zenon, <1>2, <1>6 DEF Ends, Destroyable, Only, State, Start
  <2>4. Passes("functions", w1, t0, t1)
    BY WideFirst, Zenon DEF W!x_process_utf8_to_wide
  <2> HIDE DEF w1, s1, s2, s3, s4, t0, t1, t2, t3
  <2>5. Passes("functions", <<s1, s2, s3, s4>>, t1, t3)
    BY <2>2, Passes4, Zenon
  <2>6. Passes("functions", w1 \o <<s1, s2, s3, s4>>, t0, t3)
    BY <2>4, <2>5, PassesConcat, Zenon
  <2>7. QED
    BY <2>1, <2>3, <2>6, PassesEnds, Zenon DEF t0
<1>7. CASE p = W!x_environment_set(b) /\ b = "windows"
  <2> DEFINE w1 == W!x_process_utf8_to_wide("wide_name")
             w2 == W!Calling(W!x_process_utf8_to_wide("wide_value"), {"wide_name"})
             s1 == W!Dropping(W!Test({"wide_value", "wide_name"}), {"wide_value", "wide_name"})
             t0 == Start
             t1 == Only({"wide_name"})
             t2 == Only({"wide_name", "wide_value"})
             t3 == State({}, {"wide_value", "wide_name"}, {})
  <2>1. p = w1 \o (w2 \o <<s1>>)
    BY SMTT(60), SMTT(90), <1>2, <1>7 DEF W!x_environment_set
  <2>2. Goes("functions", s1, t2, t3)
    BY Zenon DEF Goes, After, State, Start, Only, W!Dropping, W!Step, W!Test
  <2>3. Ends("functions", b, t3)
    BY Zenon, <1>2, <1>7 DEF Ends, Destroyable, Only, State, Start
  <2>4. Passes("functions", w1, t0, t1)
    BY WideFirst, Zenon DEF W!x_process_utf8_to_wide
  <2>5. Passes("functions", w2, t1, t2)
    <3>1. {"wide_name"} \subseteq {"wide_name"} /\ {"wide_name"} \cap {} = {}
      OBVIOUS
    <3>2. Passes("functions", w2,
                 State({"wide_name"}, {}, {}),
                 State({"wide_name"} \cup {"wide_value"}, {} \ {"wide_value"}, {}))
      BY <3>1, WidePasses, ZenonT(60) DEF W!x_process_utf8_to_wide
    <3>3. QED
      BY Zenon, <3>2 DEF State, Only
  <2> HIDE DEF w1, w2, s1, t0, t1, t2, t3
  <2>6. Passes("functions", <<s1>>, t2, t3)
    BY <2>2, Passes1, Zenon
  <2>7. Passes("functions", w2 \o <<s1>>, t1, t3)
    BY <2>5, <2>6, PassesConcat, Zenon
  <2>8. Passes("functions", w1 \o (w2 \o <<s1>>), t0, t3)
    BY <2>4, <2>7, PassesConcat, ZenonT(60)
  <2>9. QED
    BY <2>1, <2>3, <2>8, PassesEnds, Zenon DEF t0
<1>8. CASE p = W!x_environment_unset(b) /\ b = "windows"
  <2> DEFINE w1 == W!x_process_utf8_to_wide("wide_name")
             s1 == W!Dropping(W!Test({"wide_name"}), {"wide_name"})
             t0 == Start
             t1 == Only({"wide_name"})
             t2 == State({}, {"wide_name"}, {})
  <2>1. p = w1 \o <<s1>>
    BY Zenon, <1>2, <1>8 DEF W!x_environment_unset
  <2>2. Goes("functions", s1, t1, t2)
    BY Zenon DEF Goes, After, State, Start, Only, W!Dropping, W!Step, W!Test
  <2>3. Ends("functions", b, t2)
    BY ZenonT(60), <1>2, <1>8 DEF Ends, Destroyable, Only, State, Start
  <2>4. Passes("functions", w1, t0, t1)
    BY WideFirst, Zenon DEF W!x_process_utf8_to_wide
  <2> HIDE DEF w1, s1, t0, t1, t2
  <2>5. Passes("functions", <<s1>>, t1, t2)
    BY <2>2, Passes1, Zenon
  <2>6. Passes("functions", w1 \o <<s1>>, t0, t2)
    BY <2>4, <2>5, PassesConcat, Zenon
  <2>7. QED
    BY <2>1, <2>3, <2>6, PassesEnds, Zenon DEF t0
<1>9. QED
  BY Zenon, <1>2, <1>3, <1>4, <1>5, <1>6, <1>7, <1>8

(***************************************************************************)
(* Sockets.                                                                *)
(***************************************************************************)
\* What the child processes of a Windows build inherit.
Inherited(b, fd) == IF b = "windows" THEN {fd} ELSE {}

\* x_socket_create, called with something held: the socket is held as well.
LEMMA SocketPasses ==
    ASSUME NEW c, NEW b \in W!Builds, NEW m, NEW fd, NEW h, NEW e, NEW u,
           h \subseteq u, fd \notin e
    PROVE  Passes(c, W!Calling(W!x_socket_create(b, m, fd), u),
                  State(h, {}, e), State(h \cup {m, fd}, {}, e \cup Inherited(b, fd)))
<1> DEFINE s1 == With(W!Test({}), u)
           s2 == With(W!Step({m}, {}), u)
           s3 == With(W!Step({fd}, {m}), u)
           s4 == With(W!Exposed(W!Step({fd}, {m})), u)
           s5 == With(W!Seal(fd), u)
           t0 == State(h, {}, e)
           t1 == State(h \cup {m}, {}, e)
           t2 == State(h \cup {m, fd}, {}, e)
           t3 == State(h \cup {m, fd}, {}, e \cup {fd})
           first == <<W!Test({}), W!Step({m}, {})>>
           rest == IF b = "linux" THEN <<W!Step({fd}, {m})>>
                   ELSE IF b = "macos" THEN <<W!Exposed(W!Step({fd}, {m})), W!Seal(fd)>>
                   ELSE <<W!Exposed(W!Step({fd}, {m}))>>
<1>1. Goes(c, s1, t0, t0) /\ Goes(c, s2, t0, t1)
  BY Zenon DEF Goes, After, State, With, W!Test, W!Step
<1>2. Goes(c, s3, t1, t2) /\ Goes(c, s4, t1, t3)
  BY Zenon DEF Goes, After, State, With, W!Exposed, W!Step
<1>3. Goes(c, s5, t3, t2)
  BY Zenon DEF Goes, After, State, With, W!Seal, W!Sure, W!Test, W!Step
<1>4. W!Calling(first, u) = <<s1, s2>>
  BY Zenon, Calling2
<1>5. /\ b = "linux" => W!Calling(rest, u) = <<s3>>
      /\ b = "macos" => W!Calling(rest, u) = <<s4, s5>>
      /\ b = "windows" => W!Calling(rest, u) = <<s4>>
  BY ZenonT(60), Calling1, Calling2
<1>6. Sequence(first) /\ Sequence(rest)
  <2>1. Sequence(first)
    BY ShortSequences, Zenon
  <2>2. Sequence(rest)
    BY ShortSequences, Zenon
  <2>3. QED
    BY Zenon, <2>1, <2>2
<1>7. W!x_socket_create(b, m, fd) = first \o rest
  BY Zenon DEF W!x_socket_create
<1> HIDE DEF first, rest, s1, s2, s3, s4, s5, t0, t1, t2, t3
<1>8. W!Calling(W!x_socket_create(b, m, fd), u) = W!Calling(first, u) \o W!Calling(rest, u)
  BY SMTT(60), SMTT(90), <1>6, <1>7, CallingConcat
<1>9. Passes(c, W!Calling(first, u), t0, t1)
  BY <1>1, <1>4, Passes2, Zenon
<1> DEFINE t4 == State(h \cup {m, fd}, {}, e \cup Inherited(b, fd))
<1>10. Passes(c, W!Calling(rest, u), t1, t4)
  <2>1. CASE b = "linux"
    <3>1. t4 = t2
      BY Zenon, <2>1 DEF t2, State, Inherited
    <3>2. QED
      BY <1>2, <1>5, <2>1, <3>1, Passes1, Zenon
  <2>2. CASE b = "macos"
    <3>1. t4 = t2
      BY Zenon, <2>2 DEF t2, State, Inherited
    <3>2. QED
      BY <1>2, <1>3, <1>5, <2>2, <3>1, Passes2, Zenon
  <2>3. CASE b = "windows"
    <3>1. t4 = t3
      BY Zenon, <2>3 DEF t3, State, Inherited
    <3>2. QED
      BY <1>2, <1>5, <2>3, <3>1, Passes1, ZenonT(60)
  <2>4. QED
    BY Zenon, <2>1, <2>2, <2>3 DEF W!Builds
<1> HIDE DEF t4
<1>11. Passes(c, W!Calling(first, u) \o W!Calling(rest, u), t0, t4)
  BY <1>9, <1>10, PassesConcat, Zenon
<1>12. QED
  BY <1>8, <1>11, Zenon DEF t0, t4

\* The same at the start of a function.
LEMMA SocketFirst ==
    ASSUME NEW c, NEW b \in W!Builds, NEW m, NEW fd
    PROVE  Passes(c, W!x_socket_create(b, m, fd), Start, State({m, fd}, {}, Inherited(b, fd)))
<1> DEFINE s1 == W!Test({})
           s2 == W!Step({m}, {})
           s3 == W!Step({fd}, {m})
           s4 == W!Exposed(W!Step({fd}, {m}))
           s5 == W!Seal(fd)
           t0 == Start
           t1 == Only({m})
           t2 == Only({m, fd})
           t3 == State({m, fd}, {}, {fd})
           t4 == State({m, fd}, {}, Inherited(b, fd))
<1>1. Goes(c, s1, t0, t0) /\ Goes(c, s2, t0, t1)
  BY Zenon DEF Goes, After, State, Only, Start, W!Test, W!Step
<1>2. Goes(c, s3, t1, t2) /\ Goes(c, s4, t1, t3)
  BY Zenon DEF Goes, After, State, Only, W!Exposed, W!Step
<1>3. Goes(c, s5, t3, t2)
  BY Zenon DEF Goes, After, State, Only, W!Seal, W!Sure, W!Test, W!Step
<1>4. b # "windows" => t4 = t2
  BY Zenon DEF State, Only, Inherited
<1>5. b = "windows" => t4 = t3
  BY Zenon DEF State, Inherited
<1>6. /\ b = "linux" => W!x_socket_create(b, m, fd) = <<s1, s2>> \o <<s3>>
      /\ b = "macos" => W!x_socket_create(b, m, fd) = <<s1, s2>> \o <<s4, s5>>
      /\ b = "windows" => W!x_socket_create(b, m, fd) = <<s1, s2>> \o <<s4>>
  BY Zenon DEF W!x_socket_create
<1> HIDE DEF s1, s2, s3, s4, s5, t0, t1, t2, t3, t4
<1>7. /\ Passes(c, <<s1, s2>>, t0, t1) /\ Passes(c, <<s3>>, t1, t2)
      /\ Passes(c, <<s4, s5>>, t1, t2) /\ Passes(c, <<s4>>, t1, t3)
  BY <1>1, <1>2, <1>3, Passes1, Passes2, ZenonT(60)
<1>8. /\ Passes(c, <<s1, s2>> \o <<s3>>, t0, t2)
      /\ Passes(c, <<s1, s2>> \o <<s4, s5>>, t0, t2)
      /\ Passes(c, <<s1, s2>> \o <<s4>>, t0, t3)
  BY <1>7, PassesConcat, Zenon
<1>9. Passes(c, W!x_socket_create(b, m, fd), t0, t4)
  BY Zenon, <1>4, <1>5, <1>6, <1>8 DEF W!Builds
<1>10. QED
  BY Zenon, <1>9 DEF t0, t4

\* x_socket_create and x_socket_accept.
LEMMA SocketClean ==
    ASSUME NEW b \in W!Builds, NEW p \in W!Class("socket", b).create
    PROVE  Clean("socket", b, p, Start)
<1> DEFINE s1 == W!Step({"created"}, {})
           s2 == W!Exposed(W!Step({"fd"}, {"created"}))
           s3 == W!Seal("fd")
           t0 == Start
           t1 == Only({"created"})
           t2 == State({"created", "fd"}, {}, {"fd"})
           t3 == State({"created", "fd"}, {}, Inherited(b, "fd"))
<1>1. W!Class("socket", b) = W!socket(b)
  BY Zenon DEF W!Class
<1>2. /\ p = W!x_socket_create(b, "created", "fd") \/ p = W!x_socket_accept(b)
      /\ W!Class("socket", b).destroys = {"created", "fd"}
  BY Zenon, <1>1 DEF W!socket, W!Movable, W!Pinned, W!x_socket_close
<1>3. Ends("socket", b, t3)
  BY Zenon, <1>2 DEF Ends, Destroyable, State, Inherited
<1>4. /\ Goes("socket", s1, t0, t1) /\ Goes("socket", s2, t1, t2)
      /\ b # "windows" => Goes("socket", s3, t2, t3)
      /\ b = "windows" => t2 = t3
  BY Zenon DEF Goes, After, State, Start, Only, W!Exposed, W!Seal, W!Sure, W!Test, W!Step,
     Inherited
<1>5. /\ b = "windows" => W!x_socket_accept(b) = <<s1, s2>> \o <<>>
      /\ b # "windows" => W!x_socket_accept(b) = <<s1, s2>> \o <<s3>>
  BY Zenon DEF W!x_socket_accept
<1>6. Passes("socket", W!x_socket_create(b, "created", "fd"), t0, t3)
  BY Zenon, SocketFirst
<1> HIDE DEF s1, s2, s3, t0, t1, t2, t3
<1>7. /\ Passes("socket", <<s1, s2>>, t0, t2) /\ Passes("socket", <<>>, t2, t2)
      /\ b # "windows" => Passes("socket", <<s3>>, t2, t3)
  BY <1>4, Passes1, Passes2, PassesNil, Zenon
<1>8. /\ Passes("socket", <<s1, s2>> \o <<>>, t0, t2)
      /\ b # "windows" => Passes("socket", <<s1, s2>> \o <<s3>>, t0, t3)
  BY <1>7, PassesConcat, Zenon
<1>9. Passes("socket", W!x_socket_accept(b), t0, t3)
  BY <1>4, <1>5, <1>8, Zenon
<1>10. Passes("socket", p, t0, t3)
  BY <1>2, <1>6, <1>9, Zenon
<1>11. QED
  BY <1>3, <1>10, PassesEnds, Zenon DEF t0

\* x_socket_udp_bound.
LEMMA BoundSocketClean ==
    ASSUME NEW b \in W!Builds, NEW p \in W!Class("bound_socket", b).create
    PROVE  Clean("bound_socket", b, p, Start)
<1> DEFINE c == "bound_socket"
           s1 == W!Test({})
           s2 == W!Test({"created", "fd"})
           made == W!x_socket_create(b, "created", "fd")
           t0 == Start
           t1 == State({"created", "fd"}, {}, Inherited(b, "fd"))
<1>1. W!Class("bound_socket", b) = W!BoundSocket(b)
  BY Zenon DEF W!Class
<1>2. /\ p = W!x_socket_udp_bound(b)
      /\ W!Class("bound_socket", b).destroys = {"created", "fd"}
  BY SMTT(60), SMTT(90), <1>1 DEF W!BoundSocket, W!Pinned, W!x_socket_close
<1>3. Ends(c, b, t1)
  BY Zenon, <1>2 DEF Ends, Destroyable, State, Inherited
<1>4. Goes(c, s1, t0, t0) /\ Goes(c, s2, t1, t1)
  BY Zenon DEF Goes, After, State, Start, W!Test, W!Step
<1>5. p = (<<s1>> \o made) \o <<s2, s2>>
  BY Zenon, <1>2 DEF W!x_socket_udp_bound, W!x_socket_close
<1>6. Passes(c, made, t0, t1)
  BY Zenon, SocketFirst
<1> HIDE DEF c, s1, s2, made, t0, t1
<1>7. Passes(c, <<s1>>, t0, t0) /\ Passes(c, <<s2, s2>>, t1, t1)
  BY <1>4, Passes1, Passes2, Zenon
<1>8. Passes(c, <<s1>> \o made, t0, t1)
  BY <1>6, <1>7, PassesConcat, Zenon
<1>9. Passes(c, (<<s1>> \o made) \o <<s2, s2>>, t0, t1)
  BY <1>7, <1>8, PassesConcat, Zenon
<1>10. Clean(c, b, p, t0)
  BY <1>3, <1>5, <1>9, PassesEnds, Zenon
<1>11. QED
  BY Zenon, <1>10 DEF c, t0

(***************************************************************************)
(* The event loop.                                                         *)
(***************************************************************************)
\* What the backend adds; a Windows build has none.
BackendHeld(b) == IF b = "windows" THEN {"created"} ELSE {"created", "backend"}

\* The backend is acquired, and sealed where it was exposed.
LEMMA BackendPasses ==
    ASSUME NEW b \in W!Builds
    PROVE  Passes("event_loop", W!Backend(b), Only({"created"}), Only(BackendHeld(b)))
<1> DEFINE c == "event_loop"
           s1 == W!Step({"backend"}, {"created"})
           s2 == W!Exposed(W!Step({"backend"}, {"created"}))
           s3 == W!Seal("backend")
           t0 == Only({"created"})
           t1 == Only({"created", "backend"})
           t2 == State({"created", "backend"}, {}, {"backend"})
           t3 == Only(BackendHeld(b))
<1>1. Goes(c, s1, t0, t1) /\ Goes(c, s2, t0, t2) /\ Goes(c, s3, t2, t1)
  BY Zenon DEF Goes, After, State, Only, W!Exposed, W!Seal, W!Sure, W!Test, W!Step
<1>2. /\ b = "windows" => t3 = t0
      /\ b # "windows" => t3 = t1
  BY Zenon DEF BackendHeld
<1>3. /\ b = "linux" => W!Backend(b) = <<s1>>
      /\ b = "macos" => W!Backend(b) = <<s2, s3>>
      /\ b = "windows" => W!Backend(b) = <<>>
  BY Zenon DEF W!Backend
<1> HIDE DEF c, s1, s2, s3, t0, t1, t2, t3
<1>4. Passes(c, <<s1>>, t0, t1) /\ Passes(c, <<s2, s3>>, t0, t1) /\ Passes(c, <<>>, t0, t0)
  BY <1>1, Passes1, Passes2, PassesNil, Zenon
<1>5. Passes(c, W!Backend(b), t0, t3)
  BY Zenon, <1>2, <1>3, <1>4 DEF W!Builds
<1>6. QED
  BY Zenon, <1>5 DEF c, t0, t3

\* The wake source is added last, with everything else held.
LEMMA WakePasses ==
    ASSUME NEW b \in W!Builds, NEW h, NEW e, NEW u, h \subseteq u, "sources" \in u
    PROVE  Passes("event_loop", W!Calling(W!AddWakeSource(b), u),
                  State(h, {}, e), State(h \cup {"sources", "wake_source"}, {}, e))
<1> DEFINE c == "event_loop"
           first == <<W!Step({"sources"}, {}), W!Step({"wake_source"}, {})>>
           rest == IF b = "windows" THEN <<>> ELSE <<W!Test({"wake_source"})>>
           s1 == With(W!Step({"sources"}, {}), u)
           s2 == With(W!Step({"wake_source"}, {}), u)
           s3 == With(W!Test({"wake_source"}), u)
           t0 == State(h, {}, e)
           t1 == State(h \cup {"sources"}, {}, e)
           t2 == State(h \cup {"sources", "wake_source"}, {}, e)
<1>1. Goes(c, s1, t0, t1) /\ Goes(c, s2, t1, t2) /\ Goes(c, s3, t2, t2)
  BY Zenon DEF Goes, After, State, With, W!Test, W!Step
<1>2. W!Calling(first, u) = <<s1, s2>>
  BY Zenon, Calling2
<1>3. /\ b = "windows" => W!Calling(rest, u) = <<>>
      /\ b # "windows" => W!Calling(rest, u) = <<s3>>
  BY Zenon, Calling0, Calling1
<1>4. Sequence(first) /\ Sequence(rest)
  BY ShortSequences, Zenon
<1>5. W!AddWakeSource(b) = first \o rest
  BY Zenon DEF W!AddWakeSource
<1> HIDE DEF c, first, rest, s1, s2, s3, t0, t1, t2
<1>6. W!Calling(W!AddWakeSource(b), u) = W!Calling(first, u) \o W!Calling(rest, u)
  BY SMTT(60), SMTT(90), <1>4, <1>5, CallingConcat
<1>7. Passes(c, <<s1, s2>>, t0, t2) /\ Passes(c, <<s3>>, t2, t2) /\ Passes(c, <<>>, t2, t2)
  BY <1>1, Passes1, Passes2, PassesNil, Zenon
<1>8. Passes(c, W!Calling(first, u), t0, t2) /\ Passes(c, W!Calling(rest, u), t2, t2)
  BY <1>2, <1>3, <1>7, Zenon
<1>9. Passes(c, W!Calling(first, u) \o W!Calling(rest, u), t0, t2)
  BY <1>8, PassesConcat, Zenon
<1>10. QED
  BY <1>6, <1>9, Zenon DEF c, t0, t2

\* x_event_loop_create.
LEMMA EventLoopClean ==
    ASSUME NEW b \in W!Builds, NEW p \in W!Class("event_loop", b).create
    PROVE  Clean("event_loop", b, p, Start)
<1> DEFINE c == "event_loop"
           loop == {"backend", "created"}
           receiver == {"wake_receiver", "receiver_fd"}
           all == (loop \cup receiver) \cup {"wake_sender", "sender_fd"}
           s1 == W!Step({"created"}, {})
           s2 == W!Test(all)
           p1 == W!Calling(W!x_socket_create(b, "wake_receiver", "receiver_fd"), loop)
           p2 == W!Calling(W!x_socket_create(b, "wake_sender", "sender_fd"), loop \cup receiver)
           p3 == W!Calling(W!AddWakeSource(b), all \cup {"sources"})
           h2 == BackendHeld(b)
           h3 == h2 \cup {"wake_receiver", "receiver_fd"}
           e3 == {} \cup Inherited(b, "receiver_fd")
           h4 == h3 \cup {"wake_sender", "sender_fd"}
           e4 == e3 \cup Inherited(b, "sender_fd")
           h5 == h4 \cup {"sources", "wake_source"}
           t0 == Start
           t1 == Only({"created"})
           t2 == State(h2, {}, {})
           t3 == State(h3, {}, e3)
           t4 == State(h4, {}, e4)
           t5 == State(h5, {}, e4)
<1>1. W!Class("event_loop", b) = W!event_loop(b)
  BY Zenon DEF W!Class
<1>2. p = W!x_event_loop_create(b) /\ W!Class("event_loop", b).destroys = W!x_event_loop_destroy
  BY SMTT(60), SMTT(90), <1>1 DEF W!event_loop, W!Pinned
<1>3. p = ((((<<s1>> \o W!Backend(b)) \o p1) \o p2) \o <<s2, s2, s2, s2>>) \o p3
  BY Zenon, <1>2 DEF W!x_event_loop_create, W!x_socket_close
<1>4. /\ h2 \subseteq loop /\ h3 \subseteq loop \cup receiver /\ h4 \subseteq all
      /\ "sender_fd" \notin e3 /\ h5 \subseteq W!x_event_loop_destroy /\ "function" \notin h5
      /\ b # "windows" => e4 = {}
  BY Zenon DEF BackendHeld, Inherited, W!x_event_loop_destroy, W!x_socket_close
<1>5. Ends(c, b, t5)
  <2>1. Ends(c, b, t5) = /\ h5 \subseteq W!x_event_loop_destroy /\ "function" \notin h5
                         /\ b # "windows" => e4 = {}
    <3> HIDE DEF h5, e4
    <3>1. QED
      BY ZenonT(60), <1>2 DEF Ends, Destroyable, State
  <2>2. QED
    BY Zenon, <1>4, <2>1
<1>6. Goes(c, s1, t0, t1)
  BY Zenon DEF Goes, After, State, Start, Only, W!Step
<1>7. Goes(c, s2, t4, t4)
  <2> HIDE DEF h4, e4, all
  <2>1. QED
    BY ZenonT(60), <1>4 DEF Goes, After, State, W!Test, W!Step
<1>8. Passes(c, W!Backend(b), t1, t2)
  BY Zenon, BackendPasses DEF Only
<1> HIDE DEF h2
<1>9. Passes(c, p1, t2, t3)
  <2>1. h2 \subseteq loop /\ "receiver_fd" \notin {}
    BY Zenon, <1>4
  <2>2. QED
    BY <2>1, SocketPasses, Zenon
<1> HIDE DEF h3, e3
<1>10. Passes(c, p2, t3, t4)
  BY <1>4, SocketPasses, Zenon
<1> HIDE DEF h4, e4
<1>11. Passes(c, p3, t4, t5)
  <2>1. h4 \subseteq all \cup {"sources"} /\ "sources" \in all \cup {"sources"}
    <3> HIDE DEF all
    <3>1. QED
      BY Zenon, <1>4
  <2>2. QED
    BY <2>1, WakePasses, Zenon
<1> HIDE DEF c, s1, s2, p1, p2, p3, h5, t0, t1, t2, t3, t4, t5
<1>12. Passes(c, <<s1>>, t0, t1) /\ Passes(c, <<s2, s2, s2, s2>>, t4, t4)
  BY <1>6, <1>7, Passes1, Passes4, Zenon
<1>13. Passes(c, <<s1>> \o W!Backend(b), t0, t2)
  BY <1>8, <1>12, PassesConcat, Zenon
<1>14. Passes(c, (<<s1>> \o W!Backend(b)) \o p1, t0, t3)
  BY <1>9, <1>13, PassesConcat, Zenon
<1>15. Passes(c, ((<<s1>> \o W!Backend(b)) \o p1) \o p2, t0, t4)
  BY <1>10, <1>14, PassesConcat, Zenon
<1>16. Passes(c, (((<<s1>> \o W!Backend(b)) \o p1) \o p2) \o <<s2, s2, s2, s2>>, t0, t4)
  BY <1>12, <1>15, PassesConcat, Zenon
<1>17. Passes(c, ((((<<s1>> \o W!Backend(b)) \o p1) \o p2) \o <<s2, s2, s2, s2>>) \o p3, t0, t5)
  BY <1>11, <1>16, PassesConcat, Zenon
<1>18. Clean(c, b, p, t0)
  BY <1>3, <1>5, <1>17, PassesEnds, Zenon
<1>19. QED
  BY Zenon, <1>18 DEF c, t0

(***************************************************************************)
(* Processes.  On Windows the texts and the handles for the child are held *)
(* as far as the options ask for them.                                     *)
(***************************************************************************)
\* At most u is held, and only texts that are not needed any more are freed.
Within(t, u) ==
    \E h, f, e : /\ t = State(h, f, e)
                 /\ h \subseteq u /\ f \subseteq {"utf8_command", "wide_path"}

\* The part p of x_process_start leads from at most u to at most v.
Extends(p, u, v) ==
    \A t : Within(t, u) => \E t1 : Within(t1, v) /\ Passes("process", p, t, t1)

\* One part after the other.
LEMMA ExtendsConcat ==
    ASSUME NEW p, NEW q, NEW u, NEW v, NEW w, Extends(p, u, v), Extends(q, v, w)
    PROVE  Extends(p \o q, u, w)
BY PassesConcat, Zenon DEF Extends

\* A part that is left out.
LEMMA ExtendsNil ==
    ASSUME NEW u, NEW v, u \subseteq v
    PROVE  Extends(<<>>, u, v)
<1>1. ASSUME NEW t, Within(t, u)
      PROVE  Within(t, v)
  BY Zenon, <1>1 DEF Within
<1>2. QED
  BY <1>1, PassesNil, Zenon DEF Extends

\* A text that is converted or copied.
LEMMA TextExtends ==
    ASSUME NEW w, NEW u, u \cap {"utf8_command", "wide_path"} = {}
    PROVE  Extends(W!Calling(<<W!Test({}), W!Step({w}, {}), W!Test({w})>>, u), u, u \cup {w})
<1>1. ASSUME NEW t, Within(t, u)
      PROVE  \E t1 : /\ Within(t1, u \cup {w})
                     /\ Passes("process", W!Calling(<<W!Test({}), W!Step({w}, {}), W!Test({w})>>, u), t, t1)
  <2>1. PICK h, f, e : t = State(h, f, e) /\ h \subseteq u /\ f \subseteq {"utf8_command", "wide_path"}
    BY Zenon, <1>1 DEF Within
  <2>2. h \subseteq u /\ u \cap f = {}
    BY ZenonT(60), <2>1
  <2> DEFINE t1 == State(h \cup {w}, f \ {w}, e)
  <2>3. Passes("process", W!Calling(<<W!Test({}), W!Step({w}, {}), W!Test({w})>>, u), t, t1)
    BY <2>1, <2>2, WidePasses, Zenon
  <2>4. h \cup {w} \subseteq u \cup {w} /\ f \ {w} \subseteq {"utf8_command", "wide_path"}
    BY Zenon, <2>1
  <2>5. Within(t1, u \cup {w})
    BY <2>4, Zenon DEF Within
  <2>6. QED
    BY <2>3, <2>5, Zenon
<1>2. QED
  BY <1>1, Zenon DEF Extends

\* x_process_build_command_line: the UTF-8 text is freed in the end.
LEMMA CommandLineExtends ==
    Extends(W!Calling(W!x_process_build_command_line, {"created"}), {"created"},
            {"created", "command_line"})
<1> DEFINE c == "process"
           u == {"created"}
           a1 == W!Step({"utf8_command"}, {})
           a2 == With(W!Test({}), {"utf8_command"})
           a3 == With(W!Step({"command_line"}, {}), {"utf8_command"})
           a4 == W!Dropping(With(W!Test({"command_line"}), {"utf8_command"}), {"utf8_command"})
           s1 == With(a1, u)
           s2 == With(a2, u)
           s3 == With(a3, u)
           s4 == With(a4, u)
<1>1. W!x_process_build_command_line = <<a1>> \o <<a2, a3, a4>>
  <2>1. W!Calling(W!x_process_utf8_to_wide("command_line"), {"utf8_command"})
            = <<a2, a3, With(W!Test({"command_line"}), {"utf8_command"})>>
    BY SMTT(60), SMTT(90), Calling3 DEF W!x_process_utf8_to_wide
  <2>2. ASSUME NEW x, NEW y, NEW z, NEW d
        PROVE  W!Freeing(<<x, y, z>>, d) = <<x, y, W!Dropping(z, d)>>
    BY SMTT(60), SMTT(90) DEF W!Freeing
  <2>3. W!Freeing(<<a2, a3, With(W!Test({"command_line"}), {"utf8_command"})>>, {"utf8_command"})
            = <<a2, a3, a4>>
    BY SMTT(60), SMTT(90), <2>2
  <2>4. QED
    BY ZenonT(60), <2>1, <2>3 DEF W!x_process_build_command_line
<1>2. ASSUME NEW t, Within(t, u)
      PROVE  \E t1 : /\ Within(t1, {"created", "command_line"})
                     /\ Passes(c, <<s1>> \o <<s2, s3, s4>>, t, t1)
  <2>1. PICK h, f, e : t = State(h, f, e) /\ h \subseteq u /\ f \subseteq {"utf8_command", "wide_path"}
    BY Zenon, <1>2 DEF Within
  <2> DEFINE x0 == State(h, f, e)
             x1 == State(h \cup {"utf8_command"}, f \ {"utf8_command"}, e)
             x2 == State(h \cup {"utf8_command", "command_line"},
                         f \ {"utf8_command", "command_line"}, e)
             h3 == (h \cup {"command_line"}) \ {"utf8_command"}
             f3 == (f \ {"command_line"}) \cup {"utf8_command"}
             x3 == State(h3, f3, e \ {"utf8_command"})
  <2>2. Goes(c, s1, x0, x1)
    BY Zenon, <2>1 DEF Goes, After, State, With, W!Step
  <2>3. Goes(c, s2, x1, x1)
    BY Zenon, <2>1 DEF Goes, After, State, With, W!Test, W!Step
  <2>4. Goes(c, s3, x1, x2)
    BY Zenon, <2>1 DEF Goes, After, State, With, W!Step
  <2>5. Goes(c, s4, x2, x3)
    BY ZenonT(60), <2>1 DEF Goes, After, State, With, W!Dropping, W!Test, W!Step
  <2>6. Within(x3, {"created", "command_line"})
    <3>1. h3 \subseteq {"created", "command_line"} /\ f3 \subseteq {"utf8_command", "wide_path"}
      BY Zenon, <2>1
    <3> HIDE DEF h3, f3
    <3>2. QED
      BY <3>1, Zenon DEF Within
  <2> HIDE DEF c, s1, s2, s3, s4, x0, x1, x2, x3
  <2>7. Passes(c, <<s1>>, x0, x1) /\ Passes(c, <<s2, s3, s4>>, x1, x3)
    BY <2>2, <2>3, <2>4, <2>5, Passes1, Passes3, Zenon
  <2>8. Passes(c, <<s1>> \o <<s2, s3, s4>>, x0, x3)
    BY <2>7, PassesConcat, Zenon
  <2>9. QED
    BY <2>1, <2>6, <2>8, Zenon DEF x0
<1>3. W!Calling(W!x_process_build_command_line, u) = <<s1>> \o <<s2, s3, s4>>
  <2> HIDE DEF a1, a2, a3, a4, u
  <2>1. Sequence(<<a1>>) /\ Sequence(<<a2, a3, a4>>)
    BY ShortSequences, Zenon
  <2> DEFINE p1 == <<a1>>
             p2 == <<a2, a3, a4>>
  <2>2. W!Calling(p1 \o p2, u) = W!Calling(p1, u) \o W!Calling(p2, u)
    <3> HIDE DEF p1, p2
    <3>1. Sequence(p1) /\ Sequence(p2)
      BY Zenon, <2>1 DEF p1, p2
    <3>2. QED
      BY SMTT(60), SMTT(90), <3>1, CallingConcat
  <2>3. W!Calling(<<a1>>, u) = <<s1>> /\ W!Calling(<<a2, a3, a4>>, u) = <<s2, s3, s4>>
    BY SMTT(60), SMTT(90), Calling1, Calling3
  <2>4. QED
    BY Zenon, <1>1, <2>2, <2>3
<1>4. QED
  BY <1>2, <1>3, Zenon DEF Extends

\* A redirection opens a file or duplicates a pipe, or there is none.
LEMMA RedirectExtends ==
    ASSUME NEW choice \in {"none", "path", "pipe"}, NEW handle, NEW u,
           u \cap {"utf8_command", "wide_path"} = {}, handle # "wide_path"
    PROVE  Extends(W!Redirect(choice, handle, u), u, u \cup {handle})
<1>1. CASE choice = "none"
  <2>1. W!Redirect(choice, handle, u) = <<>>
    BY Zenon, <1>1 DEF W!Redirect
  <2>2. u \subseteq u \cup {handle}
    OBVIOUS
  <2>3. QED
    BY Zenon, <2>1, <2>2, ExtendsNil
<1>2. CASE choice = "pipe"
  <2> DEFINE s1 == With(W!Exposed(W!Step({handle}, {})), u)
  <2>1. W!Redirect(choice, handle, u) = <<s1>>
    BY Zenon, <1>2, Calling1 DEF W!Redirect, W!x_process_duplicate_pipe_for_child
  <2>2. ASSUME NEW t, Within(t, u)
        PROVE  \E t1 : Within(t1, u \cup {handle}) /\ Passes("process", <<s1>>, t, t1)
    <3>1. PICK h, f, e : t = State(h, f, e) /\ h \subseteq u /\ f \subseteq {"utf8_command", "wide_path"}
      BY Zenon, <2>2 DEF Within
    <3> DEFINE x1 == State(h \cup {handle}, f \ {handle}, e \cup {handle})
    <3>2. Goes("process", s1, t, x1)
      BY Zenon, <3>1 DEF Goes, After, State, With, W!Exposed, W!Step
    <3>3. h \cup {handle} \subseteq u \cup {handle} /\ f \ {handle} \subseteq {"utf8_command", "wide_path"}
      BY ZenonT(60), <3>1
    <3>4. Within(x1, u \cup {handle})
      BY <3>3, Zenon DEF Within
    <3>5. QED
      BY <3>2, <3>4, Passes1, Zenon
  <2>3. QED
    BY <2>1, <2>2, Zenon DEF Extends
<1>3. CASE choice = "path"
  <2> DEFINE wide == W!x_process_utf8_to_wide("wide_path")
             a1 == W!Dropping(W!Exposed(W!Step({handle}, {"wide_path"})), {"wide_path"})
             s1 == With(a1, u)
  <2>1. W!Redirect(choice, handle, u) = W!Calling(wide, u) \o <<s1>>
    <3>1. W!Redirect(choice, handle, u) = W!Calling(wide \o <<a1>>, u)
      BY Zenon, <1>3 DEF W!Redirect, W!x_process_open_redirect
    <3>2. Sequence(wide) /\ Sequence(<<a1>>)
      BY ShortSequences, Zenon DEF W!x_process_utf8_to_wide
    <3> HIDE DEF wide, a1
    <3>3. W!Calling(wide \o <<a1>>, u) = W!Calling(wide, u) \o W!Calling(<<a1>>, u)
      BY SMTT(60), SMTT(90), <3>2, CallingConcat
    <3>4. W!Calling(<<a1>>, u) = <<s1>>
      BY Calling1, Zenon
    <3>5. QED
      BY Zenon, <3>1, <3>3, <3>4
  <2>2. ASSUME NEW t, Within(t, u)
        PROVE  \E t1 : /\ Within(t1, u \cup {handle})
                       /\ Passes("process", W!Calling(wide, u) \o <<s1>>, t, t1)
    <3>1. PICK h, f, e : t = State(h, f, e) /\ h \subseteq u /\ f \subseteq {"utf8_command", "wide_path"}
      BY <2>2, Zenon DEF Within
    <3>2. h \subseteq u /\ u \cap f = {}
      BY Zenon, <3>1
    <3> DEFINE x1 == State(h \cup {"wide_path"}, f \ {"wide_path"}, e)
               h2 == (h \cup {handle}) \ {"wide_path"}
               f2 == (f \ {handle}) \cup {"wide_path"}
               x2 == State(h2, f2, (e \cup {handle}) \ {"wide_path"})
    <3>3. Passes("process", W!Calling(wide, u), t, x1)
      BY <3>1, <3>2, WidePasses, Zenon DEF W!x_process_utf8_to_wide
    <3>4. Goes("process", s1, x1, x2)
      BY Zenon, <3>1 DEF Goes, After, State, With, W!Dropping, W!Exposed, W!Step
    <3>5. h2 \subseteq u \cup {handle} /\ f2 \subseteq {"utf8_command", "wide_path"}
      BY Zenon, <3>1
    <3> HIDE DEF wide, s1, x1, h2, f2
    <3>6. Within(x2, u \cup {handle})
      BY <3>5, Zenon DEF Within
    <3> HIDE DEF x2
    <3>7. Passes("process", <<s1>>, x1, x2)
      BY <3>4, Passes1, Zenon
    <3>8. Passes("process", W!Calling(wide, u) \o <<s1>>, t, x2)
      BY <3>3, <3>7, PassesConcat, Zenon
    <3>9. QED
      BY <3>6, <3>8, Zenon
  <2>3. QED
    BY <2>1, <2>2, Zenon DEF Extends
<1>4. QED
  BY Zenon, <1>1, <1>2, <1>3

\* The texts that x_process_start passes to the system on Windows.
LEMMA PrepareExtends ==
    ASSUME NEW o
    PROVE  Extends(W!Prepare(o), {"created"}, W!Texts)
<1> DEFINE u1 == {"command_line", "created"}
           u2 == W!Texts \ {"environment_block"}
           p1 == W!Calling(W!x_process_build_command_line, {"created"})
           p2 == IF o.working_directory
                 THEN W!Calling(W!x_process_utf8_to_wide("working_directory"), u1) ELSE <<>>
           p3 == IF o.environment
                 THEN W!Calling(W!x_process_build_environment_block, u2) ELSE <<>>
<1>1. W!Prepare(o) = (p1 \o p2) \o p3
  BY Zenon DEF W!Prepare
<1>2. /\ {"created", "command_line"} = u1 /\ u1 \cup {"working_directory"} = u2
      /\ u2 \cup {"environment_block"} = W!Texts /\ u1 \subseteq u2 /\ u2 \subseteq W!Texts
      /\ u1 \cap {"utf8_command", "wide_path"} = {} /\ u2 \cap {"utf8_command", "wide_path"} = {}
  BY Zenon DEF W!Texts
<1>3. Extends(p1, {"created"}, u1)
  BY Zenon, <1>2, CommandLineExtends
<1> HIDE DEF p1, u1, u2
<1>4. Extends(p2, u1, u2)
  <2>1. Extends(W!Calling(W!x_process_utf8_to_wide("working_directory"), u1), u1,
                u1 \cup {"working_directory"})
    BY <1>2, TextExtends, Zenon DEF W!x_process_utf8_to_wide
  <2>2. Extends(<<>>, u1, u2)
    BY <1>2, ExtendsNil, Zenon
  <2>3. QED
    BY ZenonT(60), <1>2, <2>1, <2>2
<1>5. Extends(p3, u2, W!Texts)
  <2>1. Extends(W!Calling(W!x_process_build_environment_block, u2), u2,
                u2 \cup {"environment_block"})
    BY <1>2, TextExtends, Zenon DEF W!x_process_build_environment_block
  <2>2. Extends(<<>>, u2, W!Texts)
    BY <1>2, ExtendsNil, Zenon
  <2>3. QED
    BY ZenonT(60), <1>2, <2>1, <2>2
<1> HIDE DEF p2, p3
<1>6. Extends(p1 \o p2, {"created"}, u2)
  BY <1>3, <1>4, ExtendsConcat, Zenon
<1>7. Extends((p1 \o p2) \o p3, {"created"}, W!Texts)
  BY <1>5, <1>6, ExtendsConcat, Zenon
<1>8. QED
  BY <1>1, <1>7, Zenon

\* The handles it passes to the child.
LEMMA RedirectionsExtend ==
    ASSUME NEW o \in W!Options
    PROVE  Extends(W!Redirections(o), W!Texts, W!Texts \cup {"stdin", "stdout", "stderr"})
<1> DEFINE u1 == W!Texts \cup {"stdin"}
           u2 == W!Texts \cup {"stdin", "stdout"}
           u3 == W!Texts \cup {"stdin", "stdout", "stderr"}
           p1 == W!Redirect(o.stdin, "stdin", W!Texts)
           p2 == W!Redirect(o.stdout, "stdout", u1)
           p3 == W!Redirect(o.stderr, "stderr", u2)
           choices == {"none", "path", "pipe"}
<1>1. W!Redirections(o) = (p1 \o p2) \o p3
  BY Zenon DEF W!Redirections
<1>2. /\ u1 \cup {"stdout"} = u2 /\ u2 \cup {"stderr"} = u3
      /\ W!Texts \cap {"utf8_command", "wide_path"} = {} /\ u1 \cap {"utf8_command", "wide_path"} = {}
      /\ u2 \cap {"utf8_command", "wide_path"} = {}
      /\ "stdin" # "wide_path" /\ "stdout" # "wide_path" /\ "stderr" # "wide_path"
  BY Zenon DEF W!Texts
<1>3. o.stdin \in choices /\ o.stdout \in choices /\ o.stderr \in choices
  BY Zenon DEF W!Options
<1>4. Extends(p1, W!Texts, u1)
  BY <1>2, <1>3, RedirectExtends, Zenon
<1> HIDE DEF u1
<1>5. Extends(p2, u1, u1 \cup {"stdout"})
  BY <1>2, <1>3, RedirectExtends, Zenon
<1> HIDE DEF u2
<1>6. Extends(p3, u2, u2 \cup {"stderr"})
  BY <1>2, <1>3, RedirectExtends, Zenon
<1> HIDE DEF p1, p2, p3, u3
<1>7. Extends(p2, u1, u2) /\ Extends(p3, u2, u3)
  BY Zenon, <1>2, <1>5, <1>6
<1>8. Extends(p1 \o p2, W!Texts, u2)
  BY <1>4, <1>7, ExtendsConcat, Zenon
<1>9. Extends((p1 \o p2) \o p3, W!Texts, u3)
  BY <1>7, <1>8, ExtendsConcat, Zenon
<1>10. QED
  BY <1>1, <1>9, Zenon DEF u3

\* x_process_start.
LEMMA ProcessClean ==
    ASSUME NEW b \in W!Builds, NEW p \in W!Class("process", b).create
    PROVE  Clean("process", b, p, Start)
<1>1. W!Class("process", b) = W!process(b)
  BY Zenon DEF W!Class
<1>2. /\ p \in {W!x_process_start(b, o) : o \in W!Options}
      /\ W!Class("process", b).destroys = W!x_process_destroy(b)
  BY Zenon, <1>1 DEF W!process, W!Reopening, W!Movable, W!Pinned
<1>3. PICK o \in W!Options : p = W!x_process_start(b, o)
  BY Zenon, <1>2
<1>4. CASE b # "windows"
  <2> DEFINE c == "process"
             s1 == W!Step({"created"}, {})
             s2 == W!Step({"child_arguments"}, {"created"})
             s3 == W!Dropping(W!Test({"child_arguments", "created"}), {"child_arguments"})
             t0 == Start
             t1 == Only({"created"})
             t2 == Only({"created", "child_arguments"})
             t3 == State({"created"}, {"child_arguments"}, {})
  <2>1. p = <<s1>> \o <<s2, s3>>
    BY Zenon, <1>3, <1>4 DEF W!x_process_start, W!ForkProcess
  <2>2. Goes(c, s1, t0, t1) /\ Goes(c, s2, t1, t2) /\ Goes(c, s3, t2, t3)
    BY Zenon DEF Goes, After, State, Start, Only, W!Dropping, W!Test, W!Step
  <2>3. Ends(c, b, t3)
    BY Zenon, <1>2, <1>4 DEF Ends, Destroyable, State, W!x_process_destroy
  <2> HIDE DEF c, s1, s2, s3, t0, t1, t2, t3
  <2>4. Passes(c, <<s1>>, t0, t1) /\ Passes(c, <<s2, s3>>, t1, t3)
    BY <2>2, Passes1, Passes2, Zenon
  <2>5. Passes(c, <<s1>> \o <<s2, s3>>, t0, t3)
    BY <2>4, PassesConcat, Zenon
  <2>6. Clean(c, b, p, t0)
    BY <2>1, <2>3, <2>5, PassesEnds, Zenon
  <2>7. QED
    BY Zenon, <2>6 DEF c, t0
<1>5. CASE b = "windows"
  <2> DEFINE c == "process"
             used == W!Texts \cup {"stdin", "stdout", "stderr"}
             s1 == W!Step({"created"}, {})
             s2 == W!Dropping(W!Step({"hProcess", "hThread"}, used), used \ {"created"})
             p2 == W!Prepare(o)
             p3 == W!Redirections(o)
             t0 == Start
             t1 == Only({"created"})
  <2>1. p = <<s1>> \o ((p2 \o p3) \o <<s2>>)
    BY Zenon, <1>3, <1>5 DEF W!x_process_start, W!CreateProcess
  <2>2. Goes(c, s1, t0, t1)
    BY Zenon DEF Goes, After, State, Start, Only, W!Step
  <2>3. Within(t1, {"created"})
    <3>1. {"created"} \subseteq {"created"} /\ {} \subseteq {"utf8_command", "wide_path"}
      OBVIOUS
    <3>2. t1 = State({"created"}, {}, {})
      BY Zenon DEF Only
    <3> HIDE DEF t1
    <3>3. \E h, f, e : /\ t1 = State(h, f, e)
                        /\ h \subseteq {"created"} /\ f \subseteq {"utf8_command", "wide_path"}
      <4> WITNESS {"created"}, {}, {}
      <4>1. QED
        BY Zenon, <3>2
    <3>4. QED
      BY ZenonT(60), <3>3 DEF Within
  <2>4. Extends(p2 \o p3, {"created"}, used)
    BY PrepareExtends, RedirectionsExtend, ExtendsConcat, Zenon
  <2>5. PICK t2 : Within(t2, used) /\ Passes(c, p2 \o p3, t1, t2)
    BY <2>3, <2>4, Zenon DEF Extends
  <2>6. PICK h, f, e : t2 = State(h, f, e) /\ h \subseteq used /\ f \subseteq {"utf8_command", "wide_path"}
    BY ZenonT(60), <2>5 DEF Within
  <2> DEFINE h3 == (h \cup {"hProcess", "hThread"}) \ (used \ {"created"})
             t3 == State(h3, (f \ {"hProcess", "hThread"}) \cup (used \ {"created"}),
                         e \ (used \ {"created"}))
  <2>7. used \cap {"utf8_command", "wide_path"} = {}
    BY Zenon DEF W!Texts
  <2>8. h3 \subseteq {"created", "hThread", "hProcess"}
    BY Zenon, <2>6
  <2>9. Goes(c, s2, t2, t3)
    <3> HIDE DEF used
    <3>1. QED
      BY Zenon, <2>6, <2>7 DEF Goes, After, State, W!Dropping, W!Step
  <2>10. Ends(c, b, t3)
    <3> HIDE DEF used, h3
    <3>1. QED
      BY Zenon, <1>2, <1>5, <2>8 DEF Ends, Destroyable, State, W!x_process_destroy
  <2> HIDE DEF c, s1, s2, p2, p3, t0, t1, t3
  <2>11. Passes(c, <<s1>>, t0, t1) /\ Passes(c, <<s2>>, t2, t3)
    BY <2>2, <2>9, Passes1, Zenon
  <2>12. Passes(c, (p2 \o p3) \o <<s2>>, t1, t3)
    BY <2>5, <2>11, PassesConcat, Zenon
  <2>13. Passes(c, <<s1>> \o ((p2 \o p3) \o <<s2>>), t0, t3)
    BY <2>11, <2>12, PassesConcat, Zenon
  <2>14. Clean(c, b, p, t0)
    BY <2>1, <2>10, <2>13, PassesEnds, Zenon
  <2>15. QED
    BY <2>14 DEF c, t0
<1>6. QED
  BY Zenon, <1>4, <1>5

\* Every constructor of every class is clean on every build.
LEMMA ConstructorsClean ==
    ASSUME NEW b \in W!Builds, NEW c \in W!Classes, NEW p \in W!Class(c, b).create
    PROVE  Clean(c, b, p, Start)
<1>1. CASE c \in {"thread", "mutex", "recursive_mutex", "condition", "semaphore", "file"}
  BY Zenon, <1>1, ThreadClean, MutexClean, RecursiveMutexClean, ConditionClean,
     SemaphoreClean, FileClean
<1>2. CASE c \in {"dynamic_library", "mapped_file", "process", "event_loop", "socket",
                  "directory_iterator"}
  BY Zenon, <1>2, DynamicLibraryClean, MappedFileClean, ProcessClean, EventLoopClean,
     SocketClean, DirectoryIteratorClean
<1>3. CASE c \in {"bound_socket", "tls_key", "tls_context", "functions", "virtual_memory"}
  BY Zenon, <1>3, BoundSocketClean, TlsKeyClean, TlsContextClean, FunctionsClean,
     VirtualMemoryClean
<1>4. QED
  BY Zenon, <1>1, <1>2, <1>3 DEF W!Classes

(***************************************************************************)
(* Objects and handles.                                                    *)
(***************************************************************************)
Formed(r) ==
    r = [held |-> r.held, exposed |-> r.exposed, joined |-> r.joined] /\ r.joined \in BOOLEAN

\* What a handle that is not free may be: its destructor releases all of it, a
\* POSIX child does not inherit it, and a thread that was joined runs no function
\* and is gone on a POSIX system.
Good(r) ==
    /\ Destroyable(class, build, r.held)
    /\ build # "windows" => r.exposed = {}
    /\ r.joined = TRUE => "function" \notin r.held /\ (build # "windows" => "thread" \notin r.held)

\* Objects and the handles that are not free belong to each other.
OwnInv ==
    /\ \A o \in Objects : obj[o].handle # W!nullptr =>
           obj[o].made = TRUE /\ handles[obj[o].handle] # W!NoHandle
    /\ \A o, x \in Objects : obj[o].handle = obj[x].handle /\ obj[o].handle # W!nullptr => o = x
    /\ \A h \in W!Handles : handles[h] # W!NoHandle => \E o \in Objects : obj[o].handle = h

HandleInv ==
    /\ \A h \in W!Handles : handles[h] # W!NoHandle => Good(handles[h])
    /\ \A o \in Objects : obj[o].handle # W!nullptr /\ class = "thread" /\ obj[o].joined = TRUE =>
           handles[obj[o].handle].joined = TRUE

Objs ==
    /\ build \in W!Builds /\ class \in W!Classes
    /\ obj \in [Objects -> [made : BOOLEAN, handle : {W!nullptr} \cup W!Handles, joined : BOOLEAN]]
    /\ handles = [h \in W!Handles |-> handles[h]]
    /\ \A h \in W!Handles : Formed(handles[h])
    /\ OwnInv /\ HandleInv

CallFormed ==
    call = [object |-> call.object, program |-> call.program, held |-> call.held,
            freed |-> call.freed, exposed |-> call.exposed]

\* The constructor that runs is clean, and its object has no handle yet.
CallInv ==
    W!Running => /\ call.object \in Objects /\ obj[call.object].handle = W!nullptr
               /\ Clean(class, build, call.program, State(call.held, call.freed, call.exposed))

PastInv == W!NothingLost /\ twice = {} /\ orphan = FALSE

ObjectInv == Objs /\ CallFormed /\ CallInv /\ PastInv

\* No handle is the null pointer.
LEMMA NullNoHandle == W!nullptr \notin W!Handles
BY SMTT(60), SMTT(90) DEF W!nullptr, W!Handles

\* What is left of the handles when the object o has given up its own.
Without(o) == [x \in W!Handles |-> IF x = obj[o].handle THEN W!NoHandle ELSE handles[x]]

\* A free handle is well-formed.
LEMMA FreeFormed == Formed(W!NoHandle)
BY Zenon DEF Formed, W!NoHandle

\* Without gives the handles back as they are for an object without one.
LEMMA WithoutNull ==
    ASSUME Objs, NEW o \in Objects, obj[o].handle = W!nullptr
    PROVE  Without(o) = handles
BY Zenon, NullNoHandle DEF Without, Objs

\* close, destroy, reset and a destructor release exactly what the handle of the
\* object holds: nothing is left, nothing was released before, and no thread runs
\* on unless a join has failed.
LEMMA ReleaseEffect ==
    ASSUME Objs, PastInv, NEW o \in Objects, NEW failed \in BOOLEAN, W!Release(o, failed)
    PROVE  /\ lost' = lost /\ twice' = twice /\ orphan' = FALSE
           /\ handles' = Without(o)
<1>1. CASE obj[o].handle = W!nullptr
  <2>1. UNCHANGED <<handles, lost, twice, orphan>>
    BY Zenon, <1>1 DEF W!Release
  <2>2. QED
    BY Zenon, <1>1, <2>1, WithoutNull DEF PastInv
<1>2. CASE obj[o].handle # W!nullptr
  <2> DEFINE h == handles[obj[o].handle]
             ended == IF W!MustJoin(o) /\ ~failed THEN W!x_thread_join(h) ELSE h
             releases == IF class = "thread" THEN W!x_thread_destroy(build, ended.joined)
                         ELSE W!Own.destroys
  <2>1. /\ failed => W!MustJoin(o)
        /\ W!MustJoin(o) /\ ~failed => ~W!Runs(h)
        /\ handles' = [handles EXCEPT ![obj[o].handle] = W!NoHandle]
        /\ lost' = lost \cup (ended.held \ (releases \cup {"function"}))
        /\ twice' = IF h = W!NoHandle THEN twice \cup releases ELSE twice
        /\ orphan' = (orphan \/ (W!Runs(h) /\ ~failed))
    BY <1>2, Zenon DEF W!Release
  <2>2. /\ obj[o].handle \in W!Handles /\ h # W!NoHandle /\ Good(h) /\ Formed(h)
        /\ class = "thread" /\ obj[o].joined = TRUE => h.joined = TRUE
        /\ obj[o].joined \in BOOLEAN
    BY Zenon, <1>2 DEF Objs, OwnInv, HandleInv
  <2>3. handles' = Without(o)
    BY Zenon, <2>1, <2>2 DEF Objs, Without
  <2>4. twice' = twice
    BY ZenonT(60), <2>1, <2>2
  <2> HIDE DEF h
  <2>5. orphan' = FALSE
    <3>1. CASE class # "thread"
      <4>1. ~W!Runs(h)
        BY Zenon, <2>2, <3>1 DEF Good, Destroyable, W!Runs
      <4>2. QED
        BY ZenonT(60), <2>1, <4>1 DEF PastInv
    <3>2. CASE class = "thread" /\ W!MustJoin(o)
      <4>1. CASE failed = TRUE
        BY ZenonT(60), <2>1, <4>1 DEF PastInv
      <4>2. CASE failed = FALSE
        BY ZenonT(60), <2>1, <3>2, <4>2 DEF PastInv
      <4>3. QED
        BY Zenon, <4>1, <4>2
    <3>3. CASE class = "thread" /\ ~W!MustJoin(o)
      <4>1. obj[o].joined = TRUE
        BY Zenon, <2>2, <3>3 DEF W!MustJoin
      <4>2. ~W!Runs(h)
        BY Zenon, <2>2, <3>3, <4>1 DEF Good, W!Runs
      <4>3. QED
        BY <2>1, <4>2, Zenon DEF PastInv
    <3>4. QED
      BY ZenonT(60), <3>1, <3>2, <3>3
  <2>6. ended.held \subseteq releases \cup {"function"}
    <3>1. CASE class # "thread"
      <4>1. ended = h /\ releases = W!Own.destroys
        BY Zenon, <3>1 DEF W!MustJoin
      <4>2. h.held \subseteq W!Own.destroys
        BY Zenon, <2>2, <3>1 DEF Good, Destroyable, W!Own
      <4>3. QED
        BY Zenon, <4>1, <4>2
    <3>2. CASE class = "thread" /\ W!MustJoin(o) /\ failed = FALSE
      <4>1. ended = W!x_thread_join(h) /\ releases = W!x_thread_destroy(build, ended.joined)
        BY Zenon, <3>2
      <4>2. h.held \subseteq {"created", "thread", "function"}
        BY Zenon, <2>2, <3>2 DEF Good, Destroyable
      <4>3. /\ W!x_thread_join(h).joined = TRUE
            /\ W!x_thread_join(h).held = IF build = "windows" THEN h.held ELSE h.held \ {"thread"}
        BY Zenon, <2>2 DEF Formed, W!x_thread_join
      <4> HIDE DEF ended
      <4>4. CASE build = "windows"
        BY Zenon, <4>1, <4>2, <4>3, <4>4 DEF W!x_thread_destroy
      <4>5. CASE build # "windows"
        BY ZenonT(60), <4>1, <4>2, <4>3, <4>5 DEF W!x_thread_destroy
      <4>6. QED
        BY Zenon, <4>4, <4>5
    <3>3. CASE class = "thread" /\ ~(W!MustJoin(o) /\ failed = FALSE)
      <4>1. ended = h /\ releases = W!x_thread_destroy(build, h.joined)
        BY Zenon, <3>3
      <4>2. h.held \subseteq {"created", "thread", "function"}
        BY Zenon, <2>2, <3>3 DEF Good, Destroyable
      <4>3. h.joined = TRUE /\ build # "windows" => "thread" \notin h.held
        BY Zenon, <2>2 DEF Good
      <4>4. h.joined \in BOOLEAN
        BY Zenon, <2>2 DEF Formed
      <4> HIDE DEF ended, releases
      <4>5. QED
        BY Zenon, <4>1, <4>2, <4>3, <4>4 DEF W!x_thread_destroy
    <3>4. QED
      BY ZenonT(60), <3>1, <3>2, <3>3
  <2>7. lost' = lost
    <3> HIDE DEF ended, releases
    <3>1. QED
      BY Zenon, <2>1, <2>6
  <2>8. QED
    BY Zenon, <2>3, <2>4, <2>5, <2>7
<1>3. QED
  BY ZenonT(60), <1>1, <1>2

\* An object gives up its handle.
LEMMA Emptied ==
    ASSUME Objs, NEW o \in Objects, NEW m \in BOOLEAN, NEW j \in BOOLEAN,
           handles' = Without(o), UNCHANGED <<build, class>>,
           obj' = [obj EXCEPT ![o] = [made |-> m, handle |-> W!nullptr, joined |-> j]]
    PROVE  Objs'
<1>1. \A x \in Objects : x # o => obj'[x] = obj[x]
  BY Zenon DEF Objs
<1>2. obj'[o] = [made |-> m, handle |-> W!nullptr, joined |-> j] /\ obj'[o].handle = W!nullptr
  BY Zenon DEF Objs
<1>3. obj' \in [Objects -> [made : BOOLEAN, handle : {W!nullptr} \cup W!Handles, joined : BOOLEAN]]
  BY Zenon DEF Objs
<1>4. \A h \in W!Handles : handles'[h] = IF h = obj[o].handle THEN W!NoHandle ELSE handles[h]
  BY Zenon DEF Without
<1>5. handles' = [h \in W!Handles |-> handles'[h]]
  BY Zenon DEF Without
<1>6. \A h \in W!Handles : Formed(handles'[h])
  BY Zenon, <1>4, FreeFormed DEF Objs
<1>7. \A x \in Objects : x # o /\ obj[x].handle # W!nullptr =>
          obj[x].handle \in W!Handles /\ handles'[obj[x].handle] = handles[obj[x].handle]
  BY ZenonT(60), <1>4 DEF Objs, OwnInv
<1>8. OwnInv'
  <2>1. \A x \in Objects : obj'[x].handle # W!nullptr =>
            obj'[x].made = TRUE /\ handles'[obj'[x].handle] # W!NoHandle
    BY SMTT(60), SMTT(90), <1>1, <1>2, <1>7 DEF Objs, OwnInv
  <2>2. \A x, y \in Objects : obj'[x].handle = obj'[y].handle /\ obj'[x].handle # W!nullptr => x = y
    BY ZenonT(60), <1>1, <1>2 DEF Objs, OwnInv
  <2>3. \A h \in W!Handles : handles'[h] # W!NoHandle => \E x \in Objects : obj'[x].handle = h
    BY SMTT(60), SMTT(90), <1>1, <1>4 DEF Objs, OwnInv
  <2>4. QED
    BY Zenon, <2>1, <2>2, <2>3 DEF OwnInv
<1>9. HandleInv'
  <2>1. \A h \in W!Handles : handles'[h] # W!NoHandle => Good(handles[h])'
    BY Zenon, <1>4 DEF Objs, HandleInv, Good
  <2>2. \A x \in Objects : obj'[x].handle # W!nullptr /\ class' = "thread" /\ obj'[x].joined = TRUE =>
            handles'[obj'[x].handle].joined = TRUE
    BY ZenonT(60), <1>1, <1>2, <1>7 DEF Objs, HandleInv
  <2>3. QED
    BY ZenonT(60), <2>1, <2>2 DEF HandleInv
<1>10. QED
  BY Zenon, <1>3, <1>5, <1>6, <1>8, <1>9 DEF Objs

\* An object takes over the handle of another.
LEMMA MovedOn ==
    ASSUME Objs, NEW o \in Objects, NEW from \in Objects, o # from, obj[from].made,
           handles' = Without(o), UNCHANGED <<build, class>>, obj' = W!Moved(o, from)
    PROVE  Objs'
<1>1. \A x \in Objects : x # o /\ x # from => obj'[x] = obj[x]
  BY Zenon DEF Objs, W!Moved
<1>2. obj'[o] = obj[from]
  BY Zenon DEF Objs, W!Moved
<1>3. obj'[from].handle = W!nullptr
  BY Zenon DEF Objs, W!Moved
<1>4. obj' \in [Objects -> [made : BOOLEAN, handle : {W!nullptr} \cup W!Handles, joined : BOOLEAN]]
  BY ZenonT(60) DEF Objs, W!Moved
<1>5. \A h \in W!Handles : handles'[h] = IF h = obj[o].handle THEN W!NoHandle ELSE handles[h]
  BY Zenon DEF Without
<1>6. handles' = [h \in W!Handles |-> handles'[h]]
  BY Zenon DEF Without
<1>7. \A h \in W!Handles : Formed(handles'[h])
  BY Zenon, <1>5, FreeFormed DEF Objs
<1>8. \A x \in Objects : x # o /\ obj[x].handle # W!nullptr =>
          obj[x].handle \in W!Handles /\ handles'[obj[x].handle] = handles[obj[x].handle]
  BY ZenonT(60), <1>5 DEF Objs, OwnInv
<1>9. OwnInv'
  <2>1. \A x \in Objects : obj'[x].handle # W!nullptr =>
            obj'[x].made = TRUE /\ handles'[obj'[x].handle] # W!NoHandle
    BY SMTT(60), SMTT(90), <1>1, <1>2, <1>3, <1>8 DEF Objs, OwnInv
  <2>2. \A x, y \in Objects : obj'[x].handle = obj'[y].handle /\ obj'[x].handle # W!nullptr => x = y
    BY SMTT(60), SMTT(90), <1>1, <1>2, <1>3 DEF Objs, OwnInv
  <2>3. ASSUME NEW h \in W!Handles, handles'[h] # W!NoHandle
        PROVE  \E x \in Objects : obj'[x].handle = h
    <3>1. h # obj[o].handle /\ handles[h] # W!NoHandle
      BY Zenon, <1>5, <2>3
    <3>2. PICK x \in Objects : obj[x].handle = h
      BY Zenon, <3>1 DEF Objs, OwnInv
    <3>3. CASE x = from
      BY Zenon, <1>2, <3>2, <3>3
    <3>4. CASE x # from
      BY Zenon, <1>1, <3>1, <3>2, <3>4
    <3>5. QED
      BY Zenon, <3>3, <3>4
  <2>4. QED
    BY Zenon, <2>1, <2>2, <2>3 DEF OwnInv
<1>10. HandleInv'
  <2>1. \A h \in W!Handles : handles'[h] # W!NoHandle => Good(handles[h])'
    BY Zenon, <1>5 DEF Objs, HandleInv, Good
  <2>2. \A x \in Objects : obj'[x].handle # W!nullptr /\ class' = "thread" /\ obj'[x].joined = TRUE =>
            handles'[obj'[x].handle].joined = TRUE
    BY SMTT(60), SMTT(90), <1>1, <1>2, <1>3, <1>8 DEF Objs, HandleInv
  <2>3. QED
    BY Zenon, <2>1, <2>2 DEF HandleInv
<1>11. QED
  BY Zenon, <1>4, <1>6, <1>7, <1>9, <1>10 DEF Objs

\* An object gets the handle of a constructor that has succeeded.
LEMMA Filled ==
    ASSUME Objs, NEW o \in Objects, obj[o].handle = W!nullptr, NEW h \in W!Handles,
           handles[h] = W!NoHandle, NEW r, Formed(r), r # W!NoHandle, Good(r),
           handles' = [handles EXCEPT ![h] = r], UNCHANGED <<build, class>>,
           obj' = [obj EXCEPT ![o] = [made |-> TRUE, handle |-> h, joined |-> FALSE]]
    PROVE  Objs'
<1>1. \A x \in Objects : x # o => obj'[x] = obj[x]
  BY Zenon DEF Objs
<1>2. obj'[o].made = TRUE /\ obj'[o].handle = h /\ obj'[o].joined = FALSE
  BY Zenon DEF Objs
<1>3. obj' \in [Objects -> [made : BOOLEAN, handle : {W!nullptr} \cup W!Handles, joined : BOOLEAN]]
  BY Zenon DEF Objs
<1>4. \A x \in W!Handles : handles'[x] = IF x = h THEN r ELSE handles[x]
  BY Zenon DEF Objs
<1>5. handles' = [x \in W!Handles |-> handles'[x]]
  BY Zenon DEF Objs
<1>6. \A x \in W!Handles : Formed(handles'[x])
  BY Zenon, <1>4 DEF Objs
<1>7. \A x \in Objects : obj[x].handle # W!nullptr =>
          /\ obj[x].handle \in W!Handles /\ obj[x].handle # h
          /\ handles'[obj[x].handle] = handles[obj[x].handle]
  BY Zenon, <1>4 DEF Objs, OwnInv
<1>8. OwnInv'
  <2>1. \A x \in Objects : obj'[x].handle # W!nullptr =>
            obj'[x].made = TRUE /\ handles'[obj'[x].handle] # W!NoHandle
    BY ZenonT(60), <1>1, <1>2, <1>4, <1>7 DEF Objs, OwnInv
  <2>2. \A x, y \in Objects : obj'[x].handle = obj'[y].handle /\ obj'[x].handle # W!nullptr => x = y
    BY SMTT(60), SMTT(90), <1>1, <1>2, <1>7 DEF Objs, OwnInv
  <2>3. ASSUME NEW k \in W!Handles, handles'[k] # W!NoHandle
        PROVE  \E x \in Objects : obj'[x].handle = k
    <3>1. CASE k = h
      BY Zenon, <1>2, <3>1
    <3>2. CASE k # h
      <4>1. PICK x \in Objects : obj[x].handle = k
        BY Zenon, <1>4, <2>3, <3>2 DEF Objs, OwnInv
      <4>2. x # o
        BY Zenon, <4>1, NullNoHandle
      <4>3. QED
        BY Zenon, <1>1, <4>1, <4>2
    <3>3. QED
      BY Zenon, <3>1, <3>2
  <2>4. QED
    BY ZenonT(60), <2>1, <2>2, <2>3 DEF OwnInv
<1>9. HandleInv'
  <2>1. \A x \in W!Handles : handles'[x] # W!NoHandle => Good(handles[x])'
    BY Zenon, <1>4 DEF Objs, HandleInv, Good
  <2>2. \A x \in Objects : obj'[x].handle # W!nullptr /\ class' = "thread" /\ obj'[x].joined = TRUE =>
            handles'[obj'[x].handle].joined = TRUE
    BY Zenon, <1>1, <1>2, <1>7 DEF Objs, HandleInv
  <2>3. QED
    BY Zenon, <2>1, <2>2 DEF HandleInv
<1>10. QED
  BY Zenon, <1>3, <1>5, <1>6, <1>8, <1>9 DEF Objs

\* A thread ends or is joined: its handle stays with its object.
LEMMA Changed ==
    ASSUME Objs, NEW h \in W!Handles, handles[h] # W!NoHandle, NEW r, Formed(r), r # W!NoHandle,
           Good(r), handles[h].joined = TRUE => r.joined = TRUE,
           handles' = [handles EXCEPT ![h] = r], UNCHANGED <<build, class>>,
           obj' \in [Objects -> [made : BOOLEAN, handle : {W!nullptr} \cup W!Handles, joined : BOOLEAN]],
           \A x \in Objects : /\ obj'[x].handle = obj[x].handle /\ obj'[x].made = obj[x].made
                              /\ obj'[x].joined = TRUE =>
                                     obj[x].joined = TRUE \/ (obj[x].handle = h /\ r.joined = TRUE)
    PROVE  Objs'
<1>1. \A x \in W!Handles : handles'[x] = IF x = h THEN r ELSE handles[x]
  BY Zenon DEF Objs
<1>2. handles' = [x \in W!Handles |-> handles'[x]]
  BY Zenon DEF Objs
<1>3. \A x \in W!Handles : Formed(handles'[x])
  BY Zenon, <1>1 DEF Objs
<1>4. OwnInv'
  <2>1. \A x \in Objects : obj'[x].handle # W!nullptr =>
            obj'[x].made = TRUE /\ handles'[obj'[x].handle] # W!NoHandle
    BY SMTT(60), SMTT(90), <1>1 DEF Objs, OwnInv
  <2>2. \A x, y \in Objects : obj'[x].handle = obj'[y].handle /\ obj'[x].handle # W!nullptr => x = y
    BY SMTT(60), SMTT(90) DEF Objs, OwnInv
  <2>3. \A k \in W!Handles : handles'[k] # W!NoHandle => \E x \in Objects : obj'[x].handle = k
    BY SMTT(60), SMTT(90), <1>1 DEF Objs, OwnInv
  <2>4. QED
    BY ZenonT(60), <2>1, <2>2, <2>3 DEF OwnInv
<1>5. HandleInv'
  <2>1. \A x \in W!Handles : handles'[x] # W!NoHandle => Good(handles[x])'
    BY Zenon, <1>1 DEF Objs, HandleInv, Good
  <2>2. ASSUME NEW x \in Objects, obj'[x].handle # W!nullptr, class' = "thread", obj'[x].joined = TRUE
        PROVE  handles'[obj'[x].handle].joined = TRUE
    <3>1. obj[x].handle \in W!Handles /\ obj[x].handle # W!nullptr /\ obj'[x].handle = obj[x].handle
      BY Zenon, <2>2 DEF Objs
    <3>2. CASE obj[x].handle = h
      BY ZenonT(60), <1>1, <2>2, <3>1, <3>2 DEF Objs, HandleInv
    <3>3. CASE obj[x].handle # h
      BY Zenon, <1>1, <2>2, <3>1, <3>3 DEF Objs, HandleInv
    <3>4. QED
      BY ZenonT(60), <3>2, <3>3
  <2>3. QED
    BY ZenonT(60), <2>1, <2>2 DEF HandleInv
<1>6. QED
  BY Zenon, <1>2, <1>3, <1>4, <1>5 DEF Objs

\* An object without a handle.
LEMMA EmptyObject ==
    [W!NoObject EXCEPT !.made = TRUE] = [made |-> TRUE, handle |-> W!nullptr, joined |-> FALSE]
<1>1. ASSUME NEW n, NEW yes, NEW no
      PROVE  [[made |-> no, handle |-> n, joined |-> no] EXCEPT !.made = yes]
                 = [made |-> yes, handle |-> n, joined |-> no]
  BY SMTT(60), SMTT(90)
<1>2. QED
  BY <1>1, Zenon DEF W!NoObject

\* Starting a constructor.
LEMMA Started ==
    ASSUME Objs', NEW o \in Objects, obj'[o].handle = W!nullptr, W!Begin(o), UNCHANGED <<build, class>>
    PROVE  CallFormed' /\ CallInv'
<1>1. PICK program \in W!Own.create : call' = [W!NoCall EXCEPT !.object = o, !.program = program]
  BY Zenon DEF W!Begin
<1>2. call' = [object |-> o, program |-> program, held |-> {}, freed |-> {}, exposed |-> {}]
  BY ZenonT(60), <1>1 DEF W!NoCall
<1>3. Clean(class, build, program, Start)
  BY Zenon, ConstructorsClean DEF W!Own, Objs
<1>4. CallInv'
  BY Zenon, <1>2, <1>3 DEF CallInv, Start
<1>5. QED
  BY ZenonT(60), <1>2, <1>4 DEF CallFormed

\* Initially every object is empty.
LEMMA ObjectInit == W!Init => ObjectInv
<1> SUFFICES ASSUME W!Init PROVE ObjectInv
  OBVIOUS
<1>1. Objs
  <2>1. \A o \in Objects : obj[o] = W!NoObject /\ obj[o].handle = W!nullptr
    BY Zenon DEF W!Init, W!NoObject
  <2>2. \A h \in W!Handles : handles[h] = W!NoHandle
    BY Zenon DEF W!Init
  <2>3. obj \in [Objects -> [made : BOOLEAN, handle : {W!nullptr} \cup W!Handles, joined : BOOLEAN]]
    BY Zenon DEF W!Init, W!NoObject
  <2>4. handles = [h \in W!Handles |-> handles[h]]
    BY Zenon DEF W!Init
  <2>5. QED
    BY Zenon, <2>1, <2>2, <2>3, <2>4, FreeFormed DEF Objs, OwnInv, HandleInv, W!Init
<1>2. CallInv /\ PastInv
  BY Zenon DEF W!Init, W!NoCall, CallInv, W!Running, PastInv, W!NothingLost
<1>3. CallFormed
  BY Zenon DEF W!Init, W!NoCall, CallFormed
<1>4. QED
  BY Zenon, <1>1, <1>2, <1>3 DEF ObjectInv

\* A step of a constructor that succeeds ...
LEMMA SucceedStep == ObjectInv /\ W!Succeed => ObjectInv'
<1> SUFFICES ASSUME ObjectInv, W!Succeed PROVE ObjectInv'
  OBVIOUS
<1> DEFINE s == Head(call.program)
           t == State(call.held, call.freed, call.exposed)
           u == After(s, t)
           held == (call.held \cup s.gets) \ s.drops
           freed == (call.freed \ s.gets) \cup s.drops
           exposed == ((call.exposed \cup s.exposes) \ s.seals) \ s.drops
           o == call.object
<1>1. /\ W!Running /\ twice' = twice \cup (s.drops \cap call.freed)
      /\ IF Tail(call.program) = <<>> THEN call' = W!NoCall /\ W!Finish(held, exposed)
         ELSE /\ call' = [call EXCEPT !.program = Tail(@), !.held = held,
                                      !.exposed = exposed, !.freed = freed]
              /\ UNCHANGED <<obj, handles, lost>>
      /\ UNCHANGED <<build, class, orphan>>
  BY Zenon DEF W!Succeed
<1>2. /\ Objs /\ PastInv /\ o \in Objects /\ obj[o].handle = W!nullptr
      /\ Clean(class, build, call.program, t)
  BY Zenon, <1>1 DEF CallInv, ObjectInv
<1>3. Goes(class, s, t, u) /\ Clean(class, build, Tail(call.program), u)
  BY <1>1, <1>2, CleanUnfold, ZenonT(60) DEF W!Running
<1>4. u = State(held, freed, exposed) /\ u.held = held /\ u.exposed = exposed
  BY Zenon DEF After, State
<1>5. s.drops \cap call.freed = {}
  BY ZenonT(60), <1>3 DEF Goes, State
<1>6. twice' = {}
  <2> HIDE DEF s
  <2>1. QED
    BY Zenon, <1>1, <1>2, <1>5 DEF PastInv
<1> HIDE DEF s, t, u, held, freed, exposed
<1>7. CASE Tail(call.program) # <<>>
  <2>1. /\ call' = [call EXCEPT !.program = Tail(@), !.held = held,
                                !.exposed = exposed, !.freed = freed]
        /\ UNCHANGED <<obj, handles, lost, build, class, orphan>>
    BY Zenon, <1>1, <1>7
  <2>2. call' = [object |-> o, program |-> Tail(call.program), held |-> held,
                 freed |-> freed, exposed |-> exposed]
    BY ZenonT(60), <2>1 DEF ObjectInv, CallFormed
  <2>3. CallInv'
    BY ZenonT(60), <1>2, <1>3, <1>4, <2>1, <2>2 DEF CallInv
  <2>4. Objs'
    BY ZenonT(60), <1>2, <2>1 DEF Objs, OwnInv, HandleInv, Good
  <2>5. PastInv'
    BY Zenon, <1>2, <1>6, <2>1 DEF PastInv, W!NothingLost
  <2>6. QED
    BY Zenon, <2>2, <2>3, <2>4, <2>5 DEF ObjectInv, CallFormed
<1>8. CASE Tail(call.program) = <<>>
  <2>1. call' = W!NoCall /\ W!Finish(held, exposed) /\ UNCHANGED <<build, class, orphan>>
    BY Zenon, <1>1, <1>8
  <2>2. CallFormed' /\ CallInv'
    BY Zenon, <2>1 DEF W!NoCall, CallFormed, CallInv, W!Running
  <2>3. Ends(class, build, u)
    BY ZenonT(60), <1>3, <1>8, CleanEnd
  <2>4. Destroyable(class, build, held) /\ (build # "windows" => exposed = {})
    BY Zenon, <1>4, <2>3 DEF Ends
  <2>5. CASE \E h \in W!Handles :
               /\ handles[h] = W!NoHandle /\ held # {}
               /\ handles' = [handles EXCEPT ![h] = [held |-> held, exposed |-> exposed,
                                                    joined |-> FALSE]]
               /\ obj' = [obj EXCEPT ![o] = [made |-> TRUE, handle |-> h, joined |-> FALSE]]
               /\ UNCHANGED lost
    <3>1. PICK h \in W!Handles :
               /\ handles[h] = W!NoHandle /\ held # {}
               /\ handles' = [handles EXCEPT ![h] = [held |-> held, exposed |-> exposed,
                                                    joined |-> FALSE]]
               /\ obj' = [obj EXCEPT ![o] = [made |-> TRUE, handle |-> h, joined |-> FALSE]]
               /\ UNCHANGED lost
      BY ZenonT(60), <2>5
    <3> DEFINE r == [held |-> held, exposed |-> exposed, joined |-> FALSE]
    <3>2. Formed(r) /\ r # W!NoHandle /\ Good(r)
      BY Zenon, <2>4, <3>1 DEF Formed, W!NoHandle, Good
    <3> HIDE DEF r
    <3>3. handles' = [handles EXCEPT ![h] = r]
      BY Zenon, <3>1 DEF r
    <3>4. Objs'
      BY ZenonT(60), <1>2, <2>1, <3>1, <3>2, <3>3, Filled
    <3>5. PastInv'
      BY Zenon, <1>2, <1>6, <2>1, <3>1 DEF PastInv, W!NothingLost
    <3>6. QED
      BY Zenon, <2>2, <3>4, <3>5 DEF ObjectInv
  <2>6. CASE /\ class = "directory_iterator"
             /\ obj' = [obj EXCEPT ![o] = [W!NoObject EXCEPT !.made = TRUE]]
             /\ UNCHANGED handles
    <3>1. [W!NoObject EXCEPT !.made = TRUE] = [made |-> TRUE, handle |-> W!nullptr, joined |-> FALSE]
      BY Zenon, EmptyObject
    <3>2. handles' = Without(o)
      BY Zenon, <1>2, <2>6, WithoutNull
    <3>3. Objs'
      BY ZenonT(60), <1>2, <2>1, <2>6, <3>1, <3>2, Emptied
    <3>4. PastInv'
      BY Zenon, <1>2, <1>6, <2>1, <2>6 DEF PastInv, W!NothingLost
    <3>5. QED
      BY Zenon, <2>2, <3>3, <3>4 DEF ObjectInv
  <2>7. CASE UNCHANGED <<obj, handles, lost>>
    <3>1. Objs'
      BY ZenonT(60), <1>2, <2>1, <2>7 DEF Objs, OwnInv, HandleInv, Good
    <3>2. PastInv'
      BY Zenon, <1>2, <1>6, <2>1, <2>7 DEF PastInv, W!NothingLost
    <3>3. QED
      BY <2>2, <3>1, <3>2 DEF ObjectInv
  <2>8. QED
    BY ZenonT(60), <2>1, <2>5, <2>6, <2>7 DEF W!Finish
<1>9. QED
  BY Zenon, <1>7, <1>8

\* ... and one that fails.
LEMMA FailStep == ObjectInv /\ W!Fail => ObjectInv'
<1> SUFFICES ASSUME ObjectInv, W!Fail PROVE ObjectInv'
  OBVIOUS
<1> DEFINE s == Head(call.program)
           t == State(call.held, call.freed, call.exposed)
<1>1. /\ W!Running /\ s.fails /\ call' = W!NoCall
      /\ lost' = lost \cup (call.held \ s.undo)
      /\ twice' = twice \cup (s.undo \cap call.freed)
      /\ UNCHANGED <<build, class, obj, handles, orphan>>
  BY ZenonT(60) DEF W!Fail
<1>2. Objs /\ PastInv /\ Clean(class, build, call.program, t)
  BY Zenon, <1>1 DEF CallInv, ObjectInv
<1>3. Goes(class, s, t, After(s, t))
  BY <1>1, <1>2, CleanUnfold, ZenonT(60) DEF W!Running
<1>4. s.undo \cap call.freed = {} /\ (class # "directory_iterator" => call.held \subseteq s.undo)
  BY Zenon, <1>1, <1>3 DEF Goes, State
<1> HIDE DEF s, t
<1>5. PastInv'
  BY ZenonT(60), <1>1, <1>2, <1>4 DEF PastInv, W!NothingLost
<1>6. Objs'
  BY Zenon, <1>1, <1>2 DEF Objs, OwnInv, HandleInv, Good
<1>7. CallFormed' /\ CallInv'
  BY ZenonT(60), <1>1 DEF W!NoCall, CallFormed, CallInv, W!Running
<1>8. QED
  BY Zenon, <1>5, <1>6, <1>7 DEF ObjectInv

\* Default, Construct, Reopen, Close, Destruct and advance.
LEMMA ObjectStep ==
    ASSUME ObjectInv, NEW o \in Objects,
           W!Default(o) \/ W!Construct(o) \/ W!Reopen(o) \/ W!Close(o) \/ W!Destruct(o) \/ W!advance(o)
    PROVE  ObjectInv'
<1>1. Objs /\ CallFormed /\ PastInv /\ obj[o].made \in BOOLEAN /\ obj[o].joined \in BOOLEAN
  BY Zenon DEF ObjectInv, Objs
<1>2. CASE W!Default(o)
  <2>1. /\ ~W!Running /\ ~obj[o].made
        /\ obj' = [obj EXCEPT ![o] = [W!NoObject EXCEPT !.made = TRUE]]
        /\ UNCHANGED <<build, class, handles, call, lost, twice, orphan>>
    BY Zenon, <1>2 DEF W!Default
  <2>2. obj[o].handle = W!nullptr
    BY Zenon, <1>1, <2>1 DEF Objs, OwnInv
  <2>3. handles' = Without(o)
    BY Zenon, <1>1, <2>1, <2>2, WithoutNull
  <2>4. Objs'
    BY ZenonT(60), <1>1, <2>1, <2>3, EmptyObject, Emptied
  <2>5. CallFormed' /\ CallInv' /\ PastInv'
    BY Zenon, <1>1, <2>1 DEF CallFormed, CallInv, PastInv, W!NothingLost, W!Running
  <2>6. QED
    BY Zenon, <2>4, <2>5 DEF ObjectInv
<1>3. CASE W!Construct(o)
  <2>1. /\ ~obj[o].made /\ W!Begin(o)
        /\ UNCHANGED <<build, class, obj, handles, lost, twice, orphan>>
    BY Zenon, <1>3 DEF W!Construct
  <2>2. obj[o].handle = W!nullptr
    BY Zenon, <1>1, <2>1 DEF Objs, OwnInv
  <2>3. Objs'
    BY ZenonT(60), <1>1, <2>1 DEF Objs, OwnInv, HandleInv, Good
  <2>4. CallFormed' /\ CallInv'
    BY Zenon, <2>1, <2>2, <2>3, Started
  <2>5. PastInv'
    BY Zenon, <1>1, <2>1 DEF PastInv, W!NothingLost
  <2>6. QED
    BY Zenon, <2>3, <2>4, <2>5 DEF ObjectInv
<1>4. ASSUME NEW failed \in BOOLEAN, W!Release(o, failed), UNCHANGED <<build, class>>,
             obj' = [obj EXCEPT ![o].handle = W!nullptr] \/ obj' = [obj EXCEPT ![o] = W!NoObject]
      PROVE  Objs' /\ PastInv' /\ obj'[o].handle = W!nullptr
  <2>1. lost' = lost /\ twice' = twice /\ orphan' = FALSE /\ handles' = Without(o)
    BY ZenonT(60), <1>1, <1>4, ReleaseEffect
  <2>2. PastInv'
    BY Zenon, <1>1, <1>4, <2>1 DEF PastInv, W!NothingLost
  <2>3. \E m, j \in BOOLEAN : obj' = [obj EXCEPT ![o] = [made |-> m, handle |-> W!nullptr, joined |-> j]]
    <3>1. CASE obj' = [obj EXCEPT ![o].handle = W!nullptr]
      <4>1. obj' = [obj EXCEPT ![o] = [made |-> obj[o].made, handle |-> W!nullptr,
                                       joined |-> obj[o].joined]]
        <5>1. obj[o] = [made |-> obj[o].made, handle |-> obj[o].handle, joined |-> obj[o].joined]
          BY Zenon, <1>1 DEF Objs
        <5>2. [obj[o] EXCEPT !.handle = W!nullptr] = [made |-> obj[o].made, handle |-> W!nullptr,
                                                    joined |-> obj[o].joined]
          BY SMTT(60), SMTT(90), <5>1
        <5>3. QED
          BY ZenonT(60), <1>1, <3>1, <5>2 DEF Objs
      <4>2. QED
        BY Zenon, <1>1, <4>1
    <3>2. CASE obj' = [obj EXCEPT ![o] = W!NoObject]
      BY Zenon, <3>2 DEF W!NoObject
    <3>3. QED
      BY Zenon, <1>4, <3>1, <3>2
  <2>4. PICK m, j \in BOOLEAN : obj' = [obj EXCEPT ![o] = [made |-> m, handle |-> W!nullptr, joined |-> j]]
    BY Zenon, <2>3
  <2>5. Objs'
    BY ZenonT(60), <1>1, <1>4, <2>1, <2>4, Emptied
  <2>6. obj'[o].handle = W!nullptr
    BY Zenon, <1>1, <2>4 DEF Objs
  <2>7. QED
    BY Zenon, <2>2, <2>5, <2>6
<1>5. CASE W!Reopen(o)
  <2>1. /\ W!Release(o, FALSE) /\ obj' = [obj EXCEPT ![o].handle = W!nullptr]
        /\ W!Begin(o) /\ UNCHANGED <<build, class>>
    BY Zenon, <1>5 DEF W!Reopen
  <2>2. Objs' /\ PastInv' /\ obj'[o].handle = W!nullptr
    BY ZenonT(60), <1>4, <2>1
  <2>3. CallFormed' /\ CallInv'
    BY Zenon, <2>1, <2>2, Started
  <2>4. QED
    BY Zenon, <2>2, <2>3 DEF ObjectInv
<1>6. CASE W!Close(o) \/ W!advance(o)
  <2>1. /\ ~W!Running /\ W!Release(o, FALSE) /\ obj' = [obj EXCEPT ![o].handle = W!nullptr]
        /\ UNCHANGED <<build, class, call>>
    BY Zenon, <1>6 DEF W!Close, W!advance
  <2>2. Objs' /\ PastInv'
    BY ZenonT(60), <1>4, <2>1
  <2>3. CallFormed' /\ CallInv'
    BY Zenon, <1>1, <2>1 DEF CallFormed, CallInv, W!Running
  <2>4. QED
    BY Zenon, <2>2, <2>3 DEF ObjectInv
<1>7. CASE W!Destruct(o)
  <2>1. /\ ~W!Running /\ obj' = [obj EXCEPT ![o] = W!NoObject]
        /\ UNCHANGED <<build, class, call>>
        /\ \E failed \in BOOLEAN : W!Release(o, failed)
    BY Zenon, <1>7 DEF W!Destruct
  <2>2. PICK failed \in BOOLEAN : W!Release(o, failed)
    BY Zenon, <2>1
  <2>3. Objs' /\ PastInv'
    BY Zenon, <1>4, <2>1, <2>2
  <2>4. CallFormed' /\ CallInv'
    BY Zenon, <1>1, <2>1 DEF CallFormed, CallInv, W!Running
  <2>5. QED
    BY Zenon, <2>3, <2>4 DEF ObjectInv
<1>8. QED
  BY Zenon, <1>2, <1>3, <1>5, <1>6, <1>7

\* MoveConstruct and MoveAssign.
LEMMA MoveStep ==
    ASSUME ObjectInv, NEW o \in Objects, NEW from \in Objects,
           W!MoveConstruct(o, from) \/ W!MoveAssign(o, from)
    PROVE  ObjectInv'
<1>1. Objs /\ CallFormed /\ PastInv /\ obj[o].made \in BOOLEAN
  BY Zenon DEF ObjectInv, Objs
<1>2. /\ ~W!Running /\ obj[from].made /\ o # from /\ obj' = W!Moved(o, from)
      /\ UNCHANGED <<build, class, call>>
  BY Zenon DEF W!MoveConstruct, W!MoveAssign
<1>3. handles' = Without(o) /\ PastInv'
  <2>1. CASE W!MoveConstruct(o, from)
    <3>1. ~obj[o].made /\ UNCHANGED <<class, handles, lost, twice, orphan>>
      BY Zenon, <2>1 DEF W!MoveConstruct
    <3>2. obj[o].handle = W!nullptr
      BY Zenon, <1>1, <3>1 DEF Objs, OwnInv
    <3>3. handles' = Without(o)
      BY Zenon, <1>1, <3>1, <3>2, WithoutNull
    <3>4. PastInv'
      BY Zenon, <1>1, <3>1 DEF PastInv, W!NothingLost
    <3>5. QED
      BY Zenon, <3>3, <3>4
  <2>2. CASE W!MoveAssign(o, from)
    <3>1. PICK failed \in BOOLEAN : W!Release(o, failed)
      BY Zenon, <2>2 DEF W!MoveAssign
    <3>2. lost' = lost /\ twice' = twice /\ orphan' = FALSE /\ handles' = Without(o)
      BY ZenonT(60), <1>1, <3>1, ReleaseEffect
    <3>3. PastInv'
      BY Zenon, <1>1, <1>2, <3>2 DEF PastInv, W!NothingLost
    <3>4. QED
      BY Zenon, <3>2, <3>3
  <2>3. QED
    BY Zenon, <2>1, <2>2
<1>4. Objs'
  BY Zenon, <1>1, <1>2, <1>3, MovedOn
<1>5. CallFormed' /\ CallInv'
  BY Zenon, <1>1, <1>2 DEF CallFormed, CallInv, W!Running
<1>6. QED
  BY Zenon, <1>3, <1>4, <1>5 DEF ObjectInv

\* The handle of a thread that was joined.
LEMMA JoinedForm ==
    ASSUME NEW q, Formed(q)
    PROVE  W!x_thread_join(q)
               = [held |-> IF build = "windows" THEN q.held ELSE q.held \ {"thread"},
                  exposed |-> q.exposed, joined |-> TRUE]
<1> DEFINE yes == TRUE
           x == IF build = "windows" THEN q.held ELSE q.held \ {"thread"}
           q1 == [q EXCEPT !.joined = yes]
<1>1. W!x_thread_join(q) = [q EXCEPT !.joined = yes, !.held = x]
  BY Zenon DEF W!x_thread_join
<1> HIDE DEF yes, x
<1>2. q1 = [held |-> q.held, exposed |-> q.exposed, joined |-> yes]
  BY DEF Formed
<1>3. [q EXCEPT !.joined = yes, !.held = x] = [q1 EXCEPT !.held = x]
  OBVIOUS
<1> HIDE DEF q1
<1>4. [q1 EXCEPT !.held = x] = [held |-> x, exposed |-> q.exposed, joined |-> yes]
  BY SMTT(60), SMTT(90), <1>2
<1>5. W!x_thread_join(q) = [held |-> x, exposed |-> q.exposed, joined |-> yes]
  BY Zenon, <1>1, <1>3, <1>4
<1>6. QED
  BY <1>5, Zenon DEF yes, x

\* thread::join.
LEMMA JoinStep ==
    ASSUME ObjectInv, NEW o \in Objects, W!join(o)
    PROVE  ObjectInv'
<1> DEFINE h == obj[o].handle
           r == W!x_thread_join(handles[h])
<1>1. /\ ~W!Running /\ class = "thread" /\ h # W!nullptr /\ ~W!Runs(handles[h])
      /\ handles' = [handles EXCEPT ![h] = r]
      /\ obj' = [obj EXCEPT ![o].joined = TRUE]
      /\ UNCHANGED <<build, class, call, lost, twice, orphan>>
  BY Zenon DEF W!join
<1>2. Objs /\ CallFormed /\ PastInv
  BY Zenon DEF ObjectInv
<1>3. h \in W!Handles /\ handles[h] # W!NoHandle /\ Good(handles[h]) /\ Formed(handles[h])
  BY Zenon, <1>1, <1>2 DEF Objs, OwnInv, HandleInv
<1>4. r = [held |-> IF build = "windows" THEN handles[h].held ELSE handles[h].held \ {"thread"},
           exposed |-> handles[h].exposed, joined |-> TRUE]
  BY <1>3, JoinedForm, ZenonT(60)
<1>5. r.joined = TRUE /\ Formed(r) /\ r # W!NoHandle
  <2> HIDE DEF r
  <2>1. QED
    BY Zenon, <1>4 DEF Formed, W!NoHandle
<1>6. Good(r)
  <2> HIDE DEF r
  <2>1. QED
    BY Zenon, <1>1, <1>3, <1>4 DEF Good, Destroyable, W!Runs
<1>7. obj' \in [Objects -> [made : BOOLEAN, handle : {W!nullptr} \cup W!Handles, joined : BOOLEAN]]
  <2> DEFINE R == [made : BOOLEAN, handle : {W!nullptr} \cup W!Handles, joined : BOOLEAN]
  <2>1. \A s \in R : [s EXCEPT !.joined = TRUE] \in R
    BY ZenonT(60)
  <2>2. obj \in [Objects -> R]
    BY Zenon, <1>2 DEF Objs
  <2> HIDE DEF R
  <2>3. obj' \in [Objects -> R]
    BY Zenon, <1>1, <2>1, <2>2
  <2>4. QED
    BY Zenon, <2>3 DEF R
<1>8. \A x \in Objects : /\ obj'[x].handle = obj[x].handle /\ obj'[x].made = obj[x].made
                         /\ obj'[x].joined = TRUE =>
                                obj[x].joined = TRUE \/ (obj[x].handle = h /\ r.joined = TRUE)
  <2> HIDE DEF r
  <2>1. QED
    BY Zenon, <1>1, <1>2, <1>5 DEF Objs
<1> HIDE DEF h, r
<1>9. Objs'
  BY ZenonT(60), <1>1, <1>2, <1>3, <1>5, <1>6, <1>7, <1>8, Changed
<1>10. CallFormed' /\ CallInv' /\ PastInv'
  BY Zenon, <1>1, <1>2 DEF CallFormed, CallInv, W!Running, PastInv, W!NothingLost
<1>11. QED
  BY Zenon, <1>9, <1>10 DEF ObjectInv

\* thread::entry.
LEMMA EntryStep ==
    ASSUME ObjectInv, NEW h \in W!Handles, W!entry(h)
    PROVE  ObjectInv'
<1> DEFINE r == [handles[h] EXCEPT !.held = @ \ {"function"}]
<1>1. /\ class = "thread" /\ W!Runs(handles[h]) /\ handles' = [handles EXCEPT ![h].held = @ \ {"function"}]
      /\ UNCHANGED <<build, class, obj, call, lost, twice, orphan>>
  BY Zenon DEF W!entry
<1>2. Objs /\ CallFormed /\ CallInv /\ PastInv
  BY Zenon DEF ObjectInv
<1>3. handles[h] # W!NoHandle
  BY SMTT(60), SMTT(90), <1>1 DEF W!Runs, W!NoHandle
<1>4. Formed(handles[h]) /\ Good(handles[h])
  BY Zenon, <1>2, <1>3 DEF Objs, HandleInv
<1>5. r = [held |-> handles[h].held \ {"function"}, exposed |-> handles[h].exposed,
           joined |-> handles[h].joined]
  BY SMTT(60), SMTT(90), <1>4 DEF Formed
<1>6. handles' = [handles EXCEPT ![h] = r]
  BY Zenon, <1>1, <1>2 DEF Objs
<1> HIDE DEF r
<1>7. r.held = handles[h].held \ {"function"} /\ r.exposed = handles[h].exposed /\ r.joined = handles[h].joined
  BY ZenonT(60), <1>5
<1>8. "created" \in r.held
  BY Zenon, <1>1, <1>4, <1>7 DEF Good, Destroyable
<1>9. Good(r)
  BY Zenon, <1>1, <1>4, <1>7 DEF Good, Destroyable
<1>10. Formed(r) /\ r # W!NoHandle
  BY Zenon, <1>4, <1>5, <1>8 DEF Formed, W!NoHandle
<1>11. obj' \in [Objects -> [made : BOOLEAN, handle : {W!nullptr} \cup W!Handles, joined : BOOLEAN]]
  BY Zenon, <1>1, <1>2 DEF Objs
<1>12. Objs'
  BY ZenonT(60), <1>1, <1>2, <1>3, <1>6, <1>7, <1>9, <1>10, <1>11, Changed
<1>13. CallFormed' /\ CallInv' /\ PastInv'
  BY Zenon, <1>1, <1>2 DEF CallFormed, CallInv, W!Running, PastInv, W!NothingLost
<1>14. QED
  BY Zenon, <1>12, <1>13 DEF ObjectInv

\* The invariant is inductive.
LEMMA ObjectInductive == ObjectInv /\ [W!Next]_(W!vars) => ObjectInv'
<1>1. CASE W!Next
  BY <1>1, SucceedStep, FailStep, ObjectStep, MoveStep, JoinStep, EntryStep, ZenonT(60) DEF
     W!Next
<1>2. ASSUME ObjectInv, UNCHANGED W!vars
      PROVE  ObjectInv'
  BY ZenonT(60), <1>2 DEF W!vars, ObjectInv, Objs, OwnInv, HandleInv, Good, CallFormed,
     CallInv, W!Running, PastInv, W!NothingLost
<1>3. QED
  BY Zenon, <1>1, <1>2

\* Nothing counts 0 and one object counts 1.
LEMMA SmallCardinality ==
    ASSUME NEW o
    PROVE  W!Cardinality({}) = 0 /\ W!Cardinality({o}) = 1
<1>1. ASSUME NEW S, S \in {{}, {o}}
      PROVE  W!Cardinality(S) = IF S = {} THEN 0 ELSE 1
  <2> DEFINE Rest(R) == R \ {CHOOSE x : x \in R}
             Counts(f) == f = [R \in SUBSET S |-> IF R = {} THEN 0 ELSE 1 + f[Rest(R)]]
             count == CHOOSE f : Counts(f)
             g == [R \in SUBSET S |-> IF R = {} THEN 0 ELSE 1]
  <2>1. ASSUME NEW R \in SUBSET S, R # {}
        PROVE  Rest(R) = {} /\ Rest(R) \in SUBSET S
    <3>1. R = {o}
      BY Zenon, <1>1, <2>1
    <3>2. (CHOOSE x : x \in R) = o
      BY Zenon, <3>1
    <3>3. QED
      BY Zenon, <3>1, <3>2
  <2>2. Counts(g)
    <3>1. ASSUME NEW R \in SUBSET S
          PROVE  g[R] = IF R = {} THEN 0 ELSE 1 + g[Rest(R)]
      <4>1. CASE R = {}
        BY Zenon, <4>1
      <4>2. CASE R # {}
        BY SMTT(60), SMTT(90), <4>2, <2>1
      <4>3. QED
        BY Zenon, <4>1, <4>2
    <3>2. QED
      BY Zenon, <3>1
  <2>3. Counts(count)
    BY <2>2, Zenon
  <2>4. W!Cardinality(S) = count[S]
    BY Zenon DEF W!Cardinality
  <2> HIDE DEF count
  <2>5. count[{}] = 0
    BY Zenon, <2>3
  <2>6. S # {} => count[S] = 1 + count[{}]
    BY Zenon, <2>1, <2>3
  <2>7. QED
    BY SMTT(60), SMTT(90), <2>4, <2>5, <2>6
<1>2. QED
  BY Zenon, <1>1

\* Exactly one object holds each handle that is not free.
LEMMA OneOwner ==
    ASSUME ObjectInv, NEW h \in W!Handles
    PROVE  W!Cardinality(W!Owners(h)) = IF handles[h] = W!NoHandle THEN 0 ELSE 1
<1>1. Objs
  BY Zenon DEF ObjectInv
<1>2. CASE handles[h] = W!NoHandle
  <2>1. W!Owners(h) = {}
    BY ZenonT(60), <1>1, <1>2, NullNoHandle DEF W!Owners, Objs, OwnInv
  <2>2. W!Cardinality({}) = 0
    BY SmallCardinality, Zenon
  <2>3. QED
    BY Zenon, <1>2, <2>1, <2>2
<1>3. CASE handles[h] # W!NoHandle
  <2>1. PICK o \in Objects : obj[o].handle = h
    BY Zenon, <1>1, <1>3 DEF Objs, OwnInv
  <2>2. W!Owners(h) = {o}
    BY ZenonT(60), <1>1, <2>1, NullNoHandle DEF W!Owners, Objs, OwnInv
  <2>3. W!Cardinality({o}) = 1
    BY SmallCardinality, Zenon
  <2>4. QED
    BY Zenon, <1>3, <2>2, <2>3
<1>4. QED
  BY Zenon, <1>2, <1>3

\* What the invariant says.
LEMMA ObjectFacts == ObjectInv => W!NothingLost /\ W!ReleasedOnce /\ W!ThreadsJoined /\ W!Sealed
<1> SUFFICES ASSUME ObjectInv PROVE W!NothingLost /\ W!ReleasedOnce /\ W!ThreadsJoined /\ W!Sealed
  OBVIOUS
<1>1. Objs /\ PastInv
  BY Zenon DEF ObjectInv
<1>2. W!ReleasedOnce
  BY Zenon, <1>1, OneOwner DEF W!ReleasedOnce, PastInv
<1>3. W!Sealed
  BY SMTT(60), SMTT(90), <1>1 DEF W!Sealed, Objs, HandleInv, Good, W!NoHandle
<1>4. QED
  BY Zenon, <1>1, <1>2, <1>3 DEF PastInv, W!ThreadsJoined

(***************************************************************************)
(* The objects as a part of Clients.                                       *)
(***************************************************************************)
\* While the objects are not what a behaviour is about, nothing happens to them.
LEMMA ObjectSteps == [Next]_vars => [W!Next]_(W!vars)
BY Zenon DEF Next, InThreads, vars, object_vars, W!vars

\* ObjectInv holds in every reachable state.
LEMMA ObjectInvariant == FairSpec => []ObjectInv
<1>1. Init => ObjectInv
  BY Zenon, ObjectInit DEF Init
<1>2. ObjectInv /\ [Next]_vars => ObjectInv'
  BY Zenon, ObjectInductive, ObjectSteps
<1>3. QED
  BY <1>1, <1>2, PTL DEF FairSpec

\* No error path of a constructor and no destructor leaves anything behind, except
\* the constructor of directory_iterator; every handle has exactly one object, and
\* is released once; and no x_thread_t is freed under a running thread unless a
\* join has failed: for any number of objects and any sequence of constructions,
\* moves, reopenings and destructions, whichever calls of the library fail.
THEOREM HandlesReleasedOnce == FairSpec => []ReleasedOnce
<1>1. ObjectInv => ReleasedOnce
  BY Zenon, ObjectFacts DEF ReleasedOnce
<1>2. QED
  BY <1>1, ObjectInvariant, PTL

\* On a POSIX system no child process inherits a descriptor of a handle that a
\* constructor has returned: what is opened without close-on-exec is sealed before
\* the constructor ends, on every path through it.
THEOREM DescriptorsSealed == FairSpec => []Sealed
<1>1. ObjectInv => Sealed
  BY Zenon, ObjectFacts DEF Sealed
<1>2. QED
  BY <1>1, ObjectInvariant, PTL

==============================================================================
