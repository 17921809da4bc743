--------------------------- MODULE GameParseProofs ---------------------------
(***************************************************************************)
(* The parsing of a game message, for payloads, names and lists of any     *)
(* length.                                                                 *)
(*                                                                         *)
(* Whatever the message and what was read of it, its layout is a sequence  *)
(* of fields: numbers of bytes wide, and what is counted a number.  A      *)
(* count that is accepted has been compared with what is left.             *)
(***************************************************************************)
EXTENDS GameParse, SequenceTheorems, Induction, TLAPS
LOCAL INSTANCE SequencesExt

\* What is looked at again as a number, and all that fields may hold.
Numbers == {"n", "m", "len", "legion"}
Things == Nat \cup (SUBSET Nat) \cup BOOLEAN \cup [1 .. 4 -> {0, 1}] \cup [low : Nat, bits : SUBSET Nat]

FieldNames == Names \cup {""}

Fields ==
    {f \in [ws : SUBSET Nat, name : FieldNames, among : SUBSET Things, good : SUBSET Things, known : SUBSET Things,
            unit : Nat, ends : BOOLEAN] : f.unit > 0 \/ f.name \in Numbers => f.among \subseteq Nat}

ValuesHold == v = [name \in Names |-> v[name]] /\ \A name \in Numbers : v[name] \in Nat

-----------------------------------------------------------------------------
\* The fields that the layouts are made of.

LEMMA NumbersAreThings == Nat \subseteq Things
BY DEF Things

LEMMA IsField ==
    ASSUME NEW ws \in SUBSET Nat, NEW name \in FieldNames, NEW among \in SUBSET Things,
           name \in Numbers => among \subseteq Nat
    PROVE  /\ Field(ws, name, among) \in Fields
           /\ Field(ws, name, among).unit = 0 /\ Field(ws, name, among).ws = ws
BY DEF Field, Fields

LEMMA IsSkip == ASSUME NEW n \in Nat PROVE Skip(n) \in Fields
<1>1. {0} \in SUBSET Things /\ "" \in FieldNames \ Numbers
  BY NumbersAreThings DEF Numbers, FieldNames
<1>2. {n} \in SUBSET Nat OBVIOUS
<1> QED BY <1>1, <1>2, IsField DEF Skip

LEMMA IsU ==
    ASSUME NEW n \in Nat, NEW name \in FieldNames, NEW among \in SUBSET Things,
           name \in Numbers => among \subseteq Nat
    PROVE  U(n, name, among) \in Fields
<1>1. {n} \in SUBSET Nat OBVIOUS
<1> QED BY <1>1, IsField DEF U

LEMMA IsVarint == ASSUME ParseAssumption PROVE Varint \in Fields /\ Varint.unit = 0
<1>1. {0} \in SUBSET Things /\ "" \in FieldNames \ Numbers
  BY NumbersAreThings DEF Numbers, FieldNames
<1>2. 1 .. MaxVarint \in SUBSET Nat BY DEF ParseAssumption
<1> QED BY <1>1, <1>2, IsField DEF Varint

LEMMA IsOf ==
    ASSUME NEW f \in Fields, f.unit = 0, NEW name \in FieldNames, NEW among \in SUBSET Things,
           name \in Numbers => among \subseteq Nat
    PROVE  Of(f, name, among) \in Fields /\ Of(f, name, among).unit = 0 /\ Of(f, name, among).among = among
<1> DEFINE R == [ws : SUBSET Nat, name : FieldNames, among : SUBSET Things, good : SUBSET Things,
                 known : SUBSET Things, unit : Nat, ends : BOOLEAN]
           g == Of(f, name, among)
<1>1. f \in R BY DEF Fields
<1>2. g \in R /\ g.unit = f.unit /\ g.among = among /\ g.name = name BY <1>1 DEF Of
<1> HIDE DEF g
<1> QED BY <1>2 DEF Fields, g

LEMMA IsMust == ASSUME NEW f \in Fields, NEW good \in SUBSET Things PROVE Must(f, good) \in Fields
BY DEF Must, Fields

LEMMA IsKnown == ASSUME NEW f \in Fields, NEW known \in SUBSET Things PROVE Known(f, known) \in Fields
BY DEF Known, Fields

LEMMA IsCount ==
    ASSUME ParseAssumption, NEW f \in Fields, f.unit = 0, NEW name \in FieldNames, NEW unit \in Nat,
           NEW ends \in BOOLEAN
    PROVE  Count(f, name, unit, ends) \in Fields
<1>1. Counts \subseteq Nat /\ Counts \in SUBSET Things BY NumbersAreThings DEF ParseAssumption
<1>2. Of(f, name, Counts) \in Fields /\ Of(f, name, Counts).among = Counts BY <1>1, IsOf DEF Of, Fields
<1> QED BY <1>1, <1>2 DEF Count, Fields

LEMMA IsRight == ASSUME NEW n \in Nat PROVE Right(n) \in Fields
<1>1. {0, 1} \in SUBSET Things /\ {1} \in SUBSET Things /\ "" \in FieldNames \ Numbers
  BY NumbersAreThings DEF Numbers, FieldNames
<1>2. U(n, "", {0, 1}) \in Fields BY <1>1, IsU
<1> QED BY <1>1, <1>2, IsMust DEF Right

LEMMA IsSmall == ASSUME ParseAssumption PROVE Small \in Fields
<1>1. {0, 1} \in SUBSET Things /\ {1} \in SUBSET Things /\ "" \in FieldNames \ Numbers
  BY NumbersAreThings DEF Numbers, FieldNames
<1>2. Of(Varint, "", {0, 1}) \in Fields BY <1>1, IsOf, IsVarint
<1> QED BY <1>1, <1>2, IsMust DEF Small

LEMMA IsRefuse == Refuse \in Fields
<1>1. {} \in SUBSET Things OBVIOUS
<1>2. Skip(0) \in Fields BY IsSkip
<1> QED BY <1>1, <1>2, IsKnown DEF Refuse

LEMMA IsText == ASSUME NEW n \in Nat PROVE Text(n) \in Fields
BY IsSkip, IsRight DEF Text

-----------------------------------------------------------------------------
\* Sequences of fields.

LEMMA IsIf == ASSUME NEW S, NEW c, NEW s \in Seq(S) PROVE If(c, s) \in Seq(S)
BY DEF If

LEMMA IsRep == ASSUME NEW S, NEW n \in Nat, NEW s \in Seq(S) PROVE Rep(n, s) \in Seq(S)
<1>1. Len(s) \in Nat /\ n * Len(s) \in Nat OBVIOUS
<1>2. ASSUME NEW i \in 1 .. n * Len(s) PROVE s[1 + ((i - 1) % Len(s))] \in S
  <2>1. Len(s) # 0
    <3>1. SUFFICES ASSUME Len(s) = 0 PROVE FALSE OBVIOUS
    <3>2. n * Len(s) = 0 BY <3>1
    <3> QED BY <1>2, <3>2
  <2>2. (i - 1) % Len(s) \in 0 .. Len(s) - 1 BY <1>1, <2>1
  <2>3. 1 + ((i - 1) % Len(s)) \in 1 .. Len(s) BY <1>1, <2>2
  <2> QED BY <2>3
<1> QED BY <1>1, <1>2 DEF Rep

\* The layouts of every message are sequences of fields, whatever is read.
LEMMA IsName == ASSUME ParseAssumption, ValuesHold PROVE Name \in Seq(Fields)
<1>1. Counts \in SUBSET Things /\ Counts \subseteq Nat /\ "len" \in FieldNames
  BY NumbersAreThings DEF ParseAssumption, FieldNames, Names
<1>2. U(1, "len", Counts) \in Fields BY <1>1, IsU
<1>3. Text(v.len) \in Fields BY IsText DEF ValuesHold, Numbers
<1> QED BY <1>2, <1>3 DEF Name

LEMMA IsPos == Pos \in Seq(Fields)
<1>1. Skip(4) \in Fields BY IsSkip
<1> QED BY <1>1 DEF Pos

LEMMA One == ASSUME NEW S, NEW a \in S PROVE <<a>> \in Seq(S)
OBVIOUS

LEMMA IsU32s ==
    ASSUME ParseAssumption, NEW name \in FieldNames, NEW n \in Nat
    PROVE  U32s(name, n) \in Seq(Fields)
<1>1. Skip(1) \in Fields /\ Skip(4) \in Fields /\ Skip(1).unit = 0 BY IsSkip DEF Skip, Field
<1> DEFINE f == Count(Skip(1), name, 4, FALSE)
<1>2. f \in Fields BY <1>1, IsCount
<1> HIDE DEF f
<1>3. <<Skip(4)>> \in Seq(Fields) /\ <<f>> \in Seq(Fields) BY <1>1, <1>2, One
<1>4. Rep(n, <<Skip(4)>>) \in Seq(Fields) BY <1>3, IsRep
<1> QED BY <1>3, <1>4, ConcatProperties DEF U32s, f

\* PARTS
\* What fields may hold, and the fields without a name.
LEMMA HoldNumbers == \A X \in SUBSET Nat : X \in SUBSET Things
BY DEF Things

LEMMA HoldSets == \A X \in SUBSET (SUBSET Nat) : X \in SUBSET Things
BY DEF Things

LEMMA Unnamed ==
    ASSUME ParseAssumption
    PROVE  /\ \A n \in Nat : Skip(n) \in Fields /\ Right(n) \in Fields
           /\ Varint \in Fields /\ Small \in Fields /\ Refuse \in Fields
BY IsSkip, IsRight, IsVarint, IsSmall, IsRefuse

LEMMA Named == \A name \in Names : name \in FieldNames
BY DEF FieldNames

LEMMA Cat == \A s, t \in Seq(Fields) : s \o t \in Seq(Fields)
OBVIOUS

LEMMA Maybe == \A s \in Seq(Fields) : \A c : If(c, s) \in Seq(Fields)
BY IsIf

LEMMA NamedU ==
    ASSUME NEW n \in Nat, NEW name \in Names \ Numbers, NEW among \in SUBSET Things
    PROVE  U(n, name, among) \in Fields
BY IsU, Named

LEMMA NumberedU ==
    ASSUME NEW n \in Nat, NEW name \in Names, NEW among \in SUBSET Nat
    PROVE  U(n, name, among) \in Fields
BY IsU, Named, HoldNumbers

LEMMA IsHit == ASSUME ParseAssumption, ValuesHold PROVE Hit \in Seq(Fields)
<1> DEFINE sw == Of(Varint, "sw", [low : {0, 4, 6, 9}, bits : SUBSET {16, 32, 64}])
           of == Of(Varint, "form", (SUBSET {1, 4, 16}) \cup {{2}})
           form == Known(of, SUBSET {1, 4, 16})
           n == Count(Varint, "n", 1, TRUE)
<1>1. {"sw", "form", "n", "m", "len"} \subseteq FieldNames /\ {"sw", "form"} \cap Numbers = {}
  BY DEF FieldNames, Names, Numbers
<1>2. sw \in Fields
  <2>1. [low : {0, 4, 6, 9}, bits : SUBSET {16, 32, 64}] \in SUBSET Things 
    <3>1. [low : {0, 4, 6, 9}, bits : SUBSET {16, 32, 64}] \subseteq [low : Nat, bits : SUBSET Nat] OBVIOUS
    <3> QED BY <3>1 DEF Things
  <2> QED BY <1>1, <2>1, IsVarint, IsOf
<1>3. form \in Fields
  <2>1. (SUBSET {1, 4, 16}) \cup {{2}} \in SUBSET Things /\ SUBSET {1, 4, 16} \in SUBSET Things
    <3>1. (SUBSET {1, 4, 16}) \cup {{2}} \subseteq SUBSET Nat /\ SUBSET {1, 4, 16} \subseteq SUBSET Nat OBVIOUS
    <3> QED BY <3>1, HoldSets
  <2>2. of \in Fields BY <1>1, <2>1, IsVarint, IsOf
  <2> HIDE DEF of
  <2> QED BY <2>1, <2>2, IsKnown
<1>4. n \in Fields BY <1>1, IsVarint, IsCount
<1> HIDE DEF sw, form, n
<1> DEFINE s1 == <<Varint, sw, form, Varint, Skip(4), Skip(1), Small>>
           s2 == <<Skip(1), Varint, Skip(1)>>
           s3 == <<Skip(4), Right(4), Varint>>
           s4 == <<Skip(1), Right(1)>>
<1>5. s1 \in Seq(Fields) /\ s2 \in Seq(Fields) /\ s3 \in Seq(Fields) /\ s4 \in Seq(Fields)
      /\ <<Refuse>> \in Seq(Fields) /\ <<Varint>> \in Seq(Fields) /\ <<Skip(1)>> \in Seq(Fields)
  BY <1>2, <1>3, Unnamed
<1>6. <<n>> \in Seq(Fields) /\ Rep(v.n, <<Varint>>) \in Seq(Fields)
  BY <1>4, <1>5, IsRep, One DEF ValuesHold, Numbers
<1>7. <<n>> \o Rep(v.n, <<Varint>>) \in Seq(Fields) BY <1>6, Cat
<1>8. U32s("m", v.m) \in Seq(Fields) /\ U32s("len", v.len) \in Seq(Fields)
  BY <1>1, IsU32s DEF ValuesHold, Numbers
<1> HIDE DEF s1, s2, s3, s4
<1>9. Hit = s1 \o If(v.sw.low = 9, <<Refuse>>) \o If(v.sw.low = 6, s2) \o s3 \o If(v.sw.low # 0, <<Varint>>)
            \o If(v.sw.low = 4 /\ 16 \in v.sw.bits, <<Skip(1)>>)
            \o If(32 \in v.sw.bits, <<n>> \o Rep(v.n, <<Varint>>))
            \o If(1 \in v.form, U32s("m", v.m)) \o If(64 \in v.sw.bits, U32s("len", v.len)) \o s4
            \o If(4 \in v.form, <<Varint>>) \o If(16 \in v.form /\ v.sw.low = 4, <<Skip(1)>>)
  BY DEF Hit, s1, s2, s3, s4, n, sw, form, of
<1>10. /\ If(v.sw.low = 9, <<Refuse>>) \in Seq(Fields) /\ If(v.sw.low = 6, s2) \in Seq(Fields)
       /\ If(v.sw.low # 0, <<Varint>>) \in Seq(Fields)
       /\ If(v.sw.low = 4 /\ 16 \in v.sw.bits, <<Skip(1)>>) \in Seq(Fields)
       /\ If(32 \in v.sw.bits, <<n>> \o Rep(v.n, <<Varint>>)) \in Seq(Fields)
       /\ If(1 \in v.form, U32s("m", v.m)) \in Seq(Fields)
       /\ If(64 \in v.sw.bits, U32s("len", v.len)) \in Seq(Fields)
       /\ If(4 \in v.form, <<Varint>>) \in Seq(Fields)
       /\ If(16 \in v.form /\ v.sw.low = 4, <<Skip(1)>>) \in Seq(Fields)
  BY <1>5, <1>7, <1>8, Maybe
<1> HIDE DEF s1, s2, s3, s4
<1> QED BY <1>5, <1>9, <1>10, Cat

LEMMA BlankU ==
    ASSUME NEW n \in Nat, NEW among \in SUBSET Nat
    PROVE  U(n, "", among) \in Fields
<1>1. "" \in FieldNames \ Numbers BY DEF Numbers, FieldNames
<1> QED BY <1>1, IsU, HoldNumbers

LEMMA Either == ASSUME NEW S, NEW a \in S, NEW b \in S, NEW c PROVE (IF c THEN a ELSE b) \in S
OBVIOUS

LEMMA IsSpawn == ASSUME ParseAssumption, ValuesHold PROVE Spawn \in Seq(Fields)
<1> DEFINE of == Of(Varint, "n", 0 .. 2)
           n == Known(of, {0, 1})
           flags == U(1, "flags", SUBSET {8})
           alive == U(1, "alive", 0 .. 2)
           n2 == Of(Varint, "n", {0, 1})
           good == IF v.alive > 1 \/ (v.alive = 0 /\ v.n # 0) THEN {} ELSE {0}
           last == Must(Varint, good)
<1>1. n \in Fields /\ n2 \in Fields
  <2>1. "n" \in FieldNames /\ 0 .. 2 \in SUBSET Nat /\ {0, 1} \in SUBSET Nat BY DEF FieldNames, Names
  <2>2. of \in Fields /\ n2 \in Fields BY <2>1, HoldNumbers, IsVarint, IsOf
  <2> HIDE DEF of, n2
  <2> QED BY <2>1, <2>2, HoldNumbers, IsKnown
<1>2. flags \in Fields
  <2>1. SUBSET {8} \in SUBSET (SUBSET Nat) /\ "flags" \in Names \ Numbers BY DEF Names, Numbers
  <2> QED BY <2>1, HoldSets, NamedU
<1>3. alive \in Fields
  <2>1. 0 .. 2 \in SUBSET Nat /\ "alive" \in Names BY DEF Names
  <2> QED BY <2>1, NumberedU
<1>4. last \in Fields
  <2>3. {} \in SUBSET Nat /\ {0} \in SUBSET Nat OBVIOUS
  <2>1. {} \in SUBSET Things /\ {0} \in SUBSET Things BY <2>3, HoldNumbers
  <2>2. good \in SUBSET Things BY <2>1, Either
  <2> HIDE DEF good
  <2> QED BY <2>2, IsVarint, IsMust
<1> HIDE DEF n, flags, alive, n2, last
<1> DEFINE s1 == <<Varint, Skip(2), n>>
           s2 == <<Skip(4), flags, Right(1)>>
           s3 == <<Skip(4), Skip(2)>>
           s4 == <<alive, n2, last>>
<1>5. s1 \in Seq(Fields) /\ s2 \in Seq(Fields) /\ s3 \in Seq(Fields) /\ s4 \in Seq(Fields)
      /\ <<Skip(12)>> \in Seq(Fields)
  BY <1>1, <1>2, <1>3, <1>4, Unnamed
<1>6. Spawn = s1 \o If(v.n = 1, Name) \o s2 \o Pos \o s3 \o If(8 \in v.flags, <<Skip(12)>>) \o s4
  BY DEF Spawn, s1, s2, s3, s4, n, of, flags, alive, n2, good, last
<1> HIDE DEF s1, s2, s3, s4
<1>7. If(v.n = 1, Name) \in Seq(Fields) /\ If(8 \in v.flags, <<Skip(12)>>) \in Seq(Fields)
  BY <1>5, IsName, Maybe
<1> QED BY <1>5, <1>6, <1>7, IsPos, Cat

LEMMA IsObject == ASSUME ParseAssumption PROVE Object \in Seq(Fields)
<1> DEFINE u == U(2, "form", {{}, {1}, {8}, {1, 8}, {2}})
           form == Known(u, {{}, {1}, {8}, {1, 8}})
<1>1. form \in Fields
  <2>1. /\ {{}, {1}, {8}, {1, 8}, {2}} \in SUBSET (SUBSET Nat) /\ {{}, {1}, {8}, {1, 8}} \in SUBSET (SUBSET Nat)
        /\ "form" \in Names \ Numbers
    BY DEF Names, Numbers
  <2>2. u \in Fields BY <2>1, HoldSets, NamedU
  <2> HIDE DEF u
  <2> QED BY <2>1, <2>2, HoldSets, IsKnown
<1> HIDE DEF form
<1> DEFINE s1 == <<Varint, form, Skip(4)>>
           s2 == <<Skip(4), Skip(4), Right(2), Skip(1), Skip(8)>>
<1>2. s1 \in Seq(Fields) /\ s2 \in Seq(Fields) /\ <<Skip(4)>> \in Seq(Fields) /\ <<Skip(14)>> \in Seq(Fields)
      /\ <<Right(1)>> \in Seq(Fields)
  BY <1>1, Unnamed
<1>3. Object = s1 \o Pos \o s2 \o If(1 \in v.form, <<Skip(4)>>) \o <<Skip(14)>> \o If(8 \in v.form, <<Skip(4)>>)
               \o <<Right(1)>>
  BY DEF Object, s1, s2, form, u
<1> HIDE DEF s1, s2
<1>4. If(1 \in v.form, <<Skip(4)>>) \in Seq(Fields) /\ If(8 \in v.form, <<Skip(4)>>) \in Seq(Fields) BY <1>2, Maybe
<1> QED BY <1>2, <1>3, <1>4, IsPos, Cat

LEMMA IsKill == ASSUME ParseAssumption, ValuesHold PROVE Kill \in Seq(Fields)
<1> DEFINE skill == U(4, "skill", {0, 1})
           actor == Of(Varint, "actor", {0, 1})
           legion == U(1, "legion", Counts)
           good1 == IF v.legion = 0 THEN {0} ELSE {1}
           good2 == IF v.actor = 0 /\ v.skill = 0 THEN {0} ELSE {1}
           u1 == U(2, "", {0, 1})
           u2 == U(1, "", {0, 1})
           m1 == Must(u1, good1)
           m2 == Must(u2, good2)
<1>1. skill \in Fields
  <2>1. {0, 1} \in SUBSET Nat /\ "skill" \in Names BY DEF Names
  <2> QED BY <2>1, NumberedU
<1>2. actor \in Fields
  <2>1. {0, 1} \in SUBSET Nat /\ "actor" \in FieldNames BY DEF Names, FieldNames
  <2> QED BY <2>1, HoldNumbers, IsVarint, IsOf
<1>3. legion \in Fields
  <2>1. Counts \in SUBSET Nat /\ "legion" \in Names BY DEF Names, ParseAssumption
  <2> QED BY <2>1, NumberedU
<1>4. m1 \in Fields /\ m2 \in Fields
  <2>5. {1} \in SUBSET Nat /\ {0} \in SUBSET Nat OBVIOUS
  <2>1. {1} \in SUBSET Things /\ {0} \in SUBSET Things BY <2>5, HoldNumbers
  <2>2. good1 \in SUBSET Things /\ good2 \in SUBSET Things BY <2>1, Either
  <2>3. {0, 1} \in SUBSET Nat OBVIOUS
  <2>4. u1 \in Fields /\ u2 \in Fields BY <2>3, BlankU
  <2> HIDE DEF good1, good2, u1, u2
  <2> QED BY <2>2, <2>4, IsMust
<1>5. Text(v.legion) \in Fields BY IsText DEF ValuesHold, Numbers
<1> HIDE DEF skill, actor, legion, m1, m2
<1> DEFINE s1 == <<Varint, skill, actor, Skip(2)>>
           s2 == <<legion, Text(v.legion), m1, Varint, Skip(4), m2, Skip(1)>>
<1>6. s1 \in Seq(Fields) /\ s2 \in Seq(Fields)
  BY <1>1, <1>2, <1>3, <1>4, <1>5, Unnamed
<1>7. Kill = s1 \o Name \o s2
  BY DEF Kill, s1, s2, skill, actor, legion, m1, m2, good1, good2, u1, u2
<1> HIDE DEF s1, s2
<1> QED BY <1>6, <1>7, IsName, Cat

\* A byte of flags.
LEMMA IsFlags == ASSUME NEW X \in SUBSET Nat PROVE U(1, "flags", SUBSET X) \in Fields
<1>1. SUBSET X \in SUBSET (SUBSET Nat) /\ "flags" \in Names \ Numbers BY DEF Names, Numbers
<1> QED BY <1>1, HoldSets, NamedU

LEMMA IsCharacter == ASSUME ParseAssumption, ValuesHold PROVE Character \in Seq(Fields)
<1> DEFINE flags == U(1, "flags", SUBSET {1})
<1>1. flags \in Fields
  <2>1. {1} \in SUBSET Nat OBVIOUS
  <2> QED BY <2>1, IsFlags
<1> HIDE DEF flags
<1>2. <<Varint, Skip(4), flags>> \in Seq(Fields) BY <1>1, Unnamed
<1>3. If(1 \in v.flags, Name) \in Seq(Fields) BY IsName, Maybe
<1>4. Character = <<Varint, Skip(4), flags>> \o If(1 \in v.flags, Name) BY DEF Character, flags
<1> QED BY <1>2, <1>3, <1>4, Cat

LEMMA IsCast == ASSUME ParseAssumption PROVE Cast \in Seq(Fields)
<1> DEFINE u == U(1, "flags", (SUBSET {4, 8}) \cup {{1}})
           flags == Known(u, SUBSET {4, 8})
           n == U(1, "n", {0, 2})
<1>1. flags \in Fields
  <2>1. /\ (SUBSET {4, 8}) \cup {{1}} \in SUBSET (SUBSET Nat) /\ SUBSET {4, 8} \in SUBSET (SUBSET Nat)
        /\ "flags" \in Names \ Numbers
    BY DEF Names, Numbers
  <2>2. u \in Fields BY <2>1, HoldSets, NamedU
  <2> HIDE DEF u
  <2> QED BY <2>1, <2>2, HoldSets, IsKnown
<1>2. n \in Fields
  <2>1. {0, 2} \in SUBSET Nat /\ "n" \in Names BY DEF Names
  <2> QED BY <2>1, NumberedU
<1> HIDE DEF flags, n
<1> DEFINE s1 == <<Varint, flags, Skip(4), Skip(1), n, Varint, Skip(4)>>
           s2 == <<Varint, Skip(1), Varint>>
<1>3. s1 \in Seq(Fields) /\ s2 \in Seq(Fields) /\ <<Skip(1)>> \in Seq(Fields) /\ <<Varint>> \in Seq(Fields)
  BY <1>1, <1>2, Unnamed
<1>4. Cast = s1 \o If(v.n = 2, Pos) \o s2 \o If(4 \in v.flags, <<Skip(1)>>) \o If(8 \in v.flags, <<Varint>>)
  BY DEF Cast, s1, s2, flags, n, u
<1> HIDE DEF s1, s2
<1>5. If(v.n = 2, Pos) \in Seq(Fields) /\ If(4 \in v.flags, <<Skip(1)>>) \in Seq(Fields)
      /\ If(8 \in v.flags, <<Varint>>) \in Seq(Fields)
  BY <1>3, IsPos, Maybe
<1> QED BY <1>3, <1>4, <1>5, Cat

LEMMA IsMoveB == ASSUME ParseAssumption PROVE MoveB \in Seq(Fields)
<1> DEFINE flags == U(1, "flags", SUBSET {1})
<1>1. flags \in Fields
  <2>1. {1} \in SUBSET Nat OBVIOUS
  <2> QED BY <2>1, IsFlags
<1> HIDE DEF flags
<1>2. <<Varint, flags>> \in Seq(Fields) /\ <<Skip(1)>> \in Seq(Fields) BY <1>1, Unnamed
<1>3. If(1 \in v.flags, <<Skip(1)>>) \in Seq(Fields) BY <1>2, Maybe
<1>4. MoveB = <<Varint, flags>> \o If(1 \in v.flags, <<Skip(1)>>) \o Pos BY DEF MoveB, flags
<1> QED BY <1>2, <1>3, <1>4, IsPos, Cat

LEMMA IsRows == ASSUME ParseAssumption, ValuesHold PROVE Rows \in Seq(Fields)
<1> DEFINE n == Count(Varint, "n", 6, TRUE)
<1>1. n \in Fields
  <2>1. "n" \in FieldNames BY DEF Names, FieldNames
  <2> QED BY <2>1, IsVarint, IsCount
<1> HIDE DEF n
<1>2. <<n>> \in Seq(Fields) /\ <<Skip(2), Skip(4)>> \in Seq(Fields) /\ <<Right(4), Right(4)>> \in Seq(Fields)
  BY <1>1, Unnamed
<1>3. Rep(v.n, <<Skip(2), Skip(4)>>) \in Seq(Fields) BY <1>2, IsRep DEF ValuesHold, Numbers
<1>4. Rows = <<n>> \o Rep(v.n, <<Skip(2), Skip(4)>>) \o <<Right(4), Right(4)>> BY DEF Rows, n
<1> QED BY <1>2, <1>3, <1>4, Cat

LEMMA IsGauges == ASSUME ParseAssumption, ValuesHold PROVE Gauges \in Seq(Fields)
<1> DEFINE u == U(1, "flags", (SUBSET {1, 2}) \cup {{4}})
           must == Must(u, SUBSET {1, 2})
           flags == Known(must, SUBSET {1, 2})
           n == U(1, "n", Counts)
           m == U(1, "m", Counts)
<1>1. flags \in Fields
  <2>1. /\ (SUBSET {1, 2}) \cup {{4}} \in SUBSET (SUBSET Nat) /\ SUBSET {1, 2} \in SUBSET (SUBSET Nat)
        /\ "flags" \in Names \ Numbers
    BY DEF Names, Numbers
  <2>2. u \in Fields BY <2>1, HoldSets, NamedU
  <2> HIDE DEF u
  <2>3. must \in Fields BY <2>1, <2>2, HoldSets, IsMust
  <2> HIDE DEF must
  <2> QED BY <2>1, <2>3, HoldSets, IsKnown
<1>2. n \in Fields /\ m \in Fields
  <2>1. Counts \in SUBSET Nat /\ "n" \in Names /\ "m" \in Names BY DEF Names, ParseAssumption
  <2> QED BY <2>1, NumberedU
<1> HIDE DEF flags, n, m
<1> DEFINE s1 == <<n>> \o Rep(v.n, <<Skip(1), Skip(4)>>)
           s2 == <<m>> \o Rep(v.m, <<Skip(1), Skip(8)>>)
<1>3. <<n>> \in Seq(Fields) /\ <<m>> \in Seq(Fields) /\ <<Skip(1), Skip(4)>> \in Seq(Fields)
      /\ <<Skip(1), Skip(8)>> \in Seq(Fields) /\ <<Varint, flags>> \in Seq(Fields)
  BY <1>1, <1>2, Unnamed
<1>4. Rep(v.n, <<Skip(1), Skip(4)>>) \in Seq(Fields) /\ Rep(v.m, <<Skip(1), Skip(8)>>) \in Seq(Fields)
  BY <1>3, IsRep DEF ValuesHold, Numbers
<1>5. s1 \in Seq(Fields) /\ s2 \in Seq(Fields) BY <1>3, <1>4, Cat
<1>6. Gauges = <<Varint, flags>> \o If(1 \in v.flags, s1) \o If(2 \in v.flags, s2)
  BY DEF Gauges, flags, must, u, n, m, s1, s2
<1> HIDE DEF s1, s2
<1>7. If(1 \in v.flags, s1) \in Seq(Fields) /\ If(2 \in v.flags, s2) \in Seq(Fields) BY <1>5, Maybe
<1> QED BY <1>3, <1>6, <1>7, Cat

LEMMA IsNameCheck == ASSUME ParseAssumption, ValuesHold PROVE NameCheck \in Seq(Fields)
<1>1. <<Skip(2)>> \in Seq(Fields) /\ <<Right(1)>> \in Seq(Fields) BY Unnamed
<1> QED BY <1>1, IsName, Cat DEF NameCheck

LEMMA IsRedirect == ASSUME ParseAssumption, ValuesHold PROVE Redirect \in Seq(Fields)
<1> DEFINE u == U(1, "len", Counts)
           len == Must(u, Counts \ {0})
<1>1. len \in Fields
  <2>1. Counts \in SUBSET Nat /\ Counts \ {0} \in SUBSET Nat /\ "len" \in Names BY DEF Names, ParseAssumption
  <2>2. u \in Fields BY <2>1, NumberedU
  <2> HIDE DEF u
  <2> QED BY <2>1, <2>2, HoldNumbers, IsMust
<1>2. Text(v.len) \in Fields BY IsText DEF ValuesHold, Numbers
<1> HIDE DEF len
<1>3. <<Right(2), Skip(2), len, Text(v.len), Skip(2)>> \in Seq(Fields) BY <1>1, <1>2, Unnamed
<1> QED BY <1>3 DEF Redirect, len, u

LEMMA IsAccount == ASSUME ParseAssumption, ValuesHold PROVE Account \in Seq(Fields)
<1> DEFINE len == U(1, "len", Counts)
           text == IF v.len = 0 THEN Must(Skip(0), {}) ELSE Right(v.len)
<1>1. len \in Fields
  <2>1. Counts \in SUBSET Nat /\ "len" \in Names BY DEF Names, ParseAssumption
  <2> QED BY <2>1, NumberedU
<1>2. text \in Fields
  <2>1. Skip(0) \in Fields /\ {} \in SUBSET Things BY Unnamed
  <2>2. Must(Skip(0), {}) \in Fields BY <2>1, IsMust
  <2>3. Right(v.len) \in Fields BY Unnamed DEF ValuesHold, Numbers
  <2> QED BY <2>2, <2>3, Either
<1> HIDE DEF len, text
<1> DEFINE s1 == <<Right(2), Right(1)>>
           s2 == <<Skip(3), len, text>>
           s3 == <<Skip(2), Skip(5), Right(2), Skip(3)>>
<1>3. s1 \in Seq(Fields) /\ s2 \in Seq(Fields) /\ s3 \in Seq(Fields) BY <1>1, <1>2, Unnamed
<1>4. Account = s1 \o Name \o s2 \o s3 BY DEF Account, s1, s2, s3, len, text
<1> HIDE DEF s1, s2, s3
<1> QED BY <1>3, <1>4, IsName, Cat

LEMMA IsSmallMessage ==
    ASSUME ParseAssumption, ValuesHold
    PROVE  {Death, Fall, GearScore, CombatPower, CastEnd, Tick, Ping, LobbyPing} \subseteq Seq(Fields)
BY Unnamed DEF Death, Fall, GearScore, CombatPower, CastEnd, Tick, Ping, LobbyPing

LEMMA IsPlace == ASSUME ParseAssumption, ValuesHold PROVE {MoveA, Zone} \subseteq Seq(Fields)
<1>1. <<Varint, Skip(2)>> \in Seq(Fields) /\ <<Small, Skip(5)>> \in Seq(Fields) BY Unnamed
<1>2. MoveA \in Seq(Fields) BY <1>1, IsPos, Cat DEF MoveA
<1>3. Zone \in Seq(Fields) BY <1>1, IsPos, Cat DEF Zone
<1> QED BY <1>2, <1>3

LEMMA IsSheet == ASSUME ParseAssumption, ValuesHold PROVE {Sheet, SheetUpdate} \subseteq Seq(Fields)
<1>1. <<Right(2)>> \in Seq(Fields) /\ <<Varint>> \in Seq(Fields) BY Unnamed
<1>2. Sheet \in Seq(Fields) BY <1>1, IsRows, Cat DEF Sheet
<1>3. SheetUpdate \in Seq(Fields) BY <1>1, IsRows, Cat DEF SheetUpdate
<1> QED BY <1>2, <1>3

\* What is read of lists of entries.
LEMMA AppendingExists ==
    ASSUME NEW V, <<>> \in V, NEW s, Len(s) \in Nat, \A i \in 1 .. Len(s), w \in V : w \o s[i] \in V
    PROVE  \E f \in [Nat -> V] : f[0] = <<>> /\ \A i \in 1 .. Len(s) : f[i] = f[i - 1] \o s[i]
<1> DEFINE step == [i \in Nat |-> [w \in V |-> IF i \in 1 .. Len(s) THEN w \o s[i] ELSE w]]
<1>1. step \in [Nat -> [V -> V]] OBVIOUS
<1> DEFINE f == Recursion(V, <<>>, step)
<1>2. f \in [Nat -> V] /\ f[0] = <<>> /\ \A i \in Nat \ {0} : f[i] = step[i][f[i - 1]]
  <2> HIDE DEF step
  <2> QED BY <1>1, RecursionHolds
<1> HIDE DEF f
<1>3. ASSUME NEW i \in 1 .. Len(s) PROVE f[i] = f[i - 1] \o s[i]
  <2>1. i \in Nat \ {0} /\ i - 1 \in Nat /\ f[i - 1] \in V BY <1>2
  <2> QED BY <1>2, <2>1
<1> QED BY <1>2, <1>3

LEMMA FlatIsAppended ==
    ASSUME NEW S, NEW seqs \in Seq(Seq(S))
    PROVE  FlattenSeq(seqs) \in Seq(S)
<1> DEFINE V == Seq(S)
           flat == CHOOSE flatten : flatten = [i \in 1 .. Len(seqs) |->
                                                 IF i = 1 THEN seqs[i] ELSE flatten[i - 1] \o seqs[i]]
<1>1. CASE Len(seqs) = 0
  <2>1. FlattenSeq(seqs) = seqs BY <1>1 DEF FlattenSeq
  <2> QED BY <1>1, <2>1
<1>2. CASE Len(seqs) # 0
  <2>1. \A i \in 1 .. Len(seqs), w \in V : w \o seqs[i] \in V OBVIOUS
  <2>2. <<>> \in V OBVIOUS
  <2>3. PICK f \in [Nat -> V] : f[0] = <<>> /\ \A i \in 1 .. Len(seqs) : f[i] = f[i - 1] \o seqs[i]
    <3>1. Len(seqs) \in Nat OBVIOUS
    <3> HIDE DEF V
    <3> QED BY <2>1, <2>2, <3>1, AppendingExists, Zenon
  <2>4. ASSUME NEW i \in 1 .. Len(seqs) PROVE f[i] = f[i - 1] \o seqs[i] /\ f[i] \in V
    <3>1. i \in Nat OBVIOUS
    <3> HIDE DEF V
    <3> QED BY <2>3, <3>1
  <2> DEFINE g == [i \in 1 .. Len(seqs) |-> f[i]]
  <2>5. ASSUME NEW i \in 1 .. Len(seqs) PROVE g[i] = IF i = 1 THEN seqs[i] ELSE g[i - 1] \o seqs[i]
    <3>1. CASE i = 1
      <4>1. f[1] = <<>> \o seqs[1]
        <5>1. i - 1 = 0 BY <3>1
        <5> QED BY <2>3, <2>4, <3>1, <5>1
      <4>2. seqs[1] \in Seq(S) BY <3>1
      <4>3. <<>> \o seqs[1] = seqs[1] BY <4>2, ConcatEmptySeq
      <4> QED BY <3>1, <4>1, <4>3
    <3>2. CASE i # 1
      <4>1. i - 1 \in 1 .. Len(seqs) BY <3>2
      <4> QED BY <2>4, <3>2, <4>1
    <3> QED BY <3>1, <3>2
  <2>6. g = [i \in 1 .. Len(seqs) |-> IF i = 1 THEN seqs[i] ELSE g[i - 1] \o seqs[i]] BY <2>5
  <2>7. flat = [i \in 1 .. Len(seqs) |-> IF i = 1 THEN seqs[i] ELSE flat[i - 1] \o seqs[i]]
    <3> HIDE DEF g
    <3> QED BY <2>6
  <2>8. FlattenSeq(seqs) = flat[Len(seqs)] BY <1>2 DEF FlattenSeq
  <2> HIDE DEF flat
  <2> DEFINE In == {n \in Nat : n + 1 <= Len(seqs) => flat[n + 1] \in V}
  <2>9. 0 \in In
    <3>1. 1 \in 1 .. Len(seqs) BY <1>2
    <3> QED BY <2>7, <3>1
  <2>10. ASSUME NEW n \in Nat, n \in In PROVE n + 1 \in In
    <3>1. CASE n + 2 <= Len(seqs)
      <4>1. n + 2 \in 1 .. Len(seqs) /\ n + 2 # 1 /\ (n + 2) - 1 = n + 1 /\ n + 1 <= Len(seqs) BY <3>1
      <4>2. flat[n + 2] = flat[n + 1] \o seqs[n + 2] BY <2>7, <4>1
      <4>3. flat[n + 1] \in V /\ seqs[n + 2] \in V BY <2>10, <4>1
      <4>4. flat[n + 2] \in V BY <4>2, <4>3
      <4> QED BY <4>4
    <3>2. CASE ~(n + 2 <= Len(seqs)) BY <3>2
    <3> QED BY <3>1, <3>2
  <2>11. Nat \subseteq In
    <3> HIDE DEF In
    <3> QED BY <2>9, <2>10, EveryNatural
  <2>12. Len(seqs) - 1 \in Nat /\ (Len(seqs) - 1) + 1 = Len(seqs) BY <1>2
  <2>13. Len(seqs) - 1 \in In BY <2>11, <2>12
  <2>14. flat[Len(seqs)] \in V
    <3> HIDE DEF V
    <3> QED BY <2>12, <2>13
  <2> QED BY <2>8, <2>14
<1> QED BY <1>1, <1>2

\* The bits of a group.
LEMMA IsGroup == ASSUME NEW i, NEW n PROVE GroupBits(i, n) \in Seq(Fields)
<1> DEFINE all == [1 .. 4 -> {0, 1}]
           good == {m \in all : \A j \in 1 .. 4 : i + j > n => m[j] = 0}
           u == U(1, "mask", all)
           mask == Must(u, good)
<1>1. mask \in Fields
  <2>1. all \in SUBSET Things BY DEF Things
  <2>2. good \in SUBSET Things BY <2>1
  <2>3. "mask" \in Names \ Numbers BY DEF Names, Numbers
  <2> HIDE DEF all, good
  <2>4. u \in Fields BY <2>1, <2>3, NamedU
  <2> HIDE DEF u
  <2> QED BY <2>2, <2>4, IsMust
<1>2. GroupBits(i, n) = If(i % 4 = 0, <<mask>>) BY DEF GroupBits
<1> HIDE DEF mask
<1> QED BY <1>1, <1>2, One, Maybe

LEMMA IsPeek == Peek \in Fields
<1> DEFINE load == IF ~bad /\ left >= 4 THEN BOOLEAN ELSE {FALSE}
<1>1. BOOLEAN \in SUBSET Things /\ {FALSE} \in SUBSET Things BY DEF Things
<1>2. load \in SUBSET Things BY <1>1, Either
<1>3. "load" \in Names \ Numbers BY DEF Names, Numbers
<1> HIDE DEF load
<1>4. U(0, "load", load) \in Fields BY <1>2, <1>3, NamedU
<1> QED BY <1>4 DEF Peek, load

LEMMA IsN == ASSUME ParseAssumption PROVE U(1, "n", Counts) \in Fields
<1>1. Counts \in SUBSET Nat /\ "n" \in Names BY DEF Names, ParseAssumption
<1> QED BY <1>1, NumberedU

LEMMA IsServers == ASSUME ParseAssumption, ValuesHold PROVE Servers \in Seq(Fields)
<1> DEFINE n == U(1, "n", Counts)
           s1 == <<Skip(2), Skip(1), Right(2), Right(2)>>
           s2 == IF v.load THEN <<Skip(1)>> ELSE <<Skip(2), Skip(4)>>
           e(i) == s1 \o Name \o GroupBits(i, v.n) \o <<Skip(1)>> \o If(i = 0, <<Peek>>) \o s2 \o <<Skip(3)>>
           es == [i \in 1 .. v.n |-> e(i - 1)]
<1>1. <<Right(2), n>> \in Seq(Fields) /\ <<Right(2)>> \in Seq(Fields) BY IsN, Unnamed
<1>2. s1 \in Seq(Fields) /\ <<Skip(1)>> \in Seq(Fields) /\ <<Skip(2), Skip(4)>> \in Seq(Fields)
      /\ <<Skip(3)>> \in Seq(Fields)
  BY Unnamed
<1>3. s2 \in Seq(Fields) BY <1>2, Either
<1>4. <<Peek>> \in Seq(Fields) BY IsPeek, One
<1>5. Servers = <<Right(2), n>> \o FlattenSeq(es) \o <<Right(2)>> BY DEF Servers, Entries
<1> HIDE DEF s1, s2, n
<1>6. ASSUME NEW i PROVE e(i) \in Seq(Fields)
  <2>1. If(i = 0, <<Peek>>) \in Seq(Fields) BY <1>4, Maybe
  <2> QED BY <1>2, <1>3, <2>1, IsName, IsGroup, Cat
<1> HIDE DEF e
<1>7. es \in Seq(Seq(Fields)) 
  <2>1. v.n \in Nat BY DEF ValuesHold, Numbers
  <2> QED BY <1>6, <2>1
<1> HIDE DEF es
<1> QED BY <1>1, <1>5, <1>7, FlatIsAppended, Cat

LEMMA IsCharacters == ASSUME ParseAssumption, ValuesHold PROVE Characters \in Seq(Fields)
<1> DEFINE n == U(1, "n", Counts)
           s1 == <<Skip(4), Skip(4), Right(4), Skip(4), Skip(1), Skip(8), Skip(8)>>
           e(i) == <<Skip(2)>> \o Name \o s1 \o GroupBits(i, v.n)
           es == [i \in 1 .. v.n |-> e(i - 1)]
<1>1. <<Right(2), n>> \in Seq(Fields) /\ <<Right(2)>> \in Seq(Fields) BY IsN, Unnamed
<1>2. s1 \in Seq(Fields) /\ <<Skip(2)>> \in Seq(Fields) BY Unnamed
<1>3. Characters = <<Right(2), n>> \o FlattenSeq(es) \o <<Right(2)>> BY DEF Characters, Entries
<1> HIDE DEF s1, n
<1>4. ASSUME NEW i PROVE e(i) \in Seq(Fields) BY <1>2, IsName, IsGroup, Cat
<1> HIDE DEF e
<1>5. es \in Seq(Seq(Fields)) 
  <2>1. v.n \in Nat BY DEF ValuesHold, Numbers
  <2> QED BY <1>4, <2>1
<1> HIDE DEF es
<1> QED BY <1>1, <1>3, <1>5, FlatIsAppended, Cat

\* The layout of a message is a sequence of fields.
LEMMA LayoutIsFields == ASSUME ParseAssumption, ValuesHold, kind \in Kinds PROVE Layout \in Seq(Fields)
<1>1. {Hit, Spawn, Object, Kill, Character, Cast, MoveB} \subseteq Seq(Fields)
  BY IsHit, IsSpawn, IsObject, IsKill, IsCharacter, IsCast, IsMoveB
<1>2. {Gauges, NameCheck, Redirect, Account, Servers, Characters, Sheet, SheetUpdate, MoveA, Zone} \subseteq Seq(Fields)
  BY IsGauges, IsNameCheck, IsRedirect, IsAccount, IsServers, IsCharacters, IsSheet, IsPlace
<1>3. {Death, Fall, GearScore, CombatPower, CastEnd, Tick, Ping, LobbyPing} \subseteq Seq(Fields) BY IsSmallMessage
<1>4. Layout \in {Hit, Spawn, Object, Kill, Character, Cast, MoveB, Gauges, NameCheck, Redirect, Account, Servers,
                  Characters, Sheet, SheetUpdate, MoveA, Zone, Death, Fall, GearScore, CombatPower, CastEnd, Tick,
                  Ping, LobbyPing}
  BY DEF Layout, ParseAssumption
<1> HIDE DEF Layout
<1> QED BY <1>1, <1>2, <1>3, <1>4

-----------------------------------------------------------------------------
\* The reader.

Parsing ==
    /\ left \in Nat /\ room \in Int /\ at \in Nat \ {0} /\ bad \in BOOLEAN
    /\ out \in {"reading", "event", "layout", "unread"} /\ (out = "reading" => kind \in Kinds)
    /\ ValuesHold

IInv == Parsing /\ MessageIsWhole

LEMMA InitHolds == ASSUME ParseAssumption, Init PROVE IInv
<1>1. ValuesHold BY DEF Init, ValuesHold, Numbers, Names, Zero
<1>2. out \in {"unread", "reading"} /\ (out = "reading" => kind \in Kinds)
  <2>1. out = IF client \/ kind = "none" THEN "unread" ELSE "reading" BY DEF Init
  <2> QED BY <2>1 DEF Init
<1>3. left \in Nat /\ room = 0 /\ at = 1 /\ bad = FALSE BY DEF Init, ParseAssumption
<1>6. bad \in BOOLEAN BY <1>3
<1>7. at \in Nat \ {0} /\ room \in Int BY <1>3
<1>4. Parsing BY <1>1, <1>2, <1>3, <1>6, <1>7 DEF Parsing
<1>5. MessageIsWhole BY <1>2, <1>3 DEF MessageIsWhole, AllocationsAreBacked, BrokenIsNeverUnread, EventIsWhole
<1> QED BY <1>4, <1>5 DEF IInv

\* A value is read of a field.
LEMMA ReadHolds ==
    ASSUME Parsing, NEW f \in Fields, NEW x, f.name \in Numbers => x \in Nat, NEW nil, NEW failed \in BOOLEAN,
           out = "reading", Read(f, x, nil, failed)
    PROVE  /\ ValuesHold' /\ bad' = failed /\ at' = at + 1
           /\ \/ out' = "reading"
              \/ out' = "layout" /\ failed
              \/ out' = "unread" /\ ~failed
<1>1. ValuesHold'
  <2>1. CASE f.name = "" BY <2>1 DEF Read, Parsing, ValuesHold
  <2>2. CASE f.name # ""
    <3>1. f.name \in Names BY <2>2 DEF Fields, FieldNames
    <3>2. v' = [v EXCEPT ![f.name] = x] BY <2>2 DEF Read
    <3>3. v = [name \in Names |-> v[name]] BY DEF Parsing, ValuesHold
    <3>4. v' = [name \in Names |-> IF name = f.name THEN x ELSE v[name]] BY <3>1, <3>2, <3>3
    <3>5. Numbers \subseteq Names BY DEF Numbers, Names
    <3> QED BY <3>4, <3>5 DEF Parsing, ValuesHold
  <2> QED BY <2>1, <2>2
<1>2. bad' = failed /\ at' = at + 1 /\ out' \in {"reading", Returned(nil, failed)} BY DEF Read
<1>3. \/ out' = "reading"
      \/ out' = "layout" /\ failed
      \/ out' = "unread" /\ ~failed
  <2>1. out' = IF nil THEN Returned(nil, failed) ELSE "reading" BY DEF Read
  <2> QED BY <2>1 DEF Returned
<1> QED BY <1>1, <1>2, <1>3

\* What a read that fails leaves is no number but 0.
LEMMA ZeroHolds == \A name \in Numbers : Zero(name) \in Nat
BY DEF Numbers, Zero

LEMMA NextHolds == ASSUME ParseAssumption, IInv, [Next]_vars PROVE IInv'
<1> USE DEF IInv, MessageIsWhole
<1>1. CASE ReadField
  <2> DEFINE f == Layout[at]
  <2>1. out = "reading" /\ kind \in Kinds /\ at \in 1 .. Len(Layout) /\ UNCHANGED <<kind, client>>
    BY <1>1 DEF ReadField, Parsing
  <2>2. f \in Fields
    <3>1. Layout \in Seq(Fields) BY <2>1, LayoutIsFields DEF Parsing
    <3> HIDE DEF Fields
    <3> QED BY <2>1, <3>1
  <2>3. Take(f) \/ Fail(f) \/ ReadNothing(f) BY <1>1 DEF ReadField
  <2> HIDE DEF f
  <2>4. CASE Take(f)
    <3>1. PICK w \in f.ws, x \in f.among :
             /\ ~bad /\ w <= left /\ left' = left - w
             /\ IF TooMany(f, x, left - w)
                THEN Read(f, 0, f.ends, TRUE) /\ UNCHANGED room
                ELSE /\ Read(f, x, x \notin f.known, x \notin f.good)
                     /\ room' = IF f.unit > 0 THEN left - w - x * f.unit ELSE room
      BY <2>4 DEF Take
    <3>2. w \in Nat /\ f.unit \in Nat /\ (f.unit > 0 \/ f.name \in Numbers => x \in Nat) BY <2>2, <3>1 DEF Fields
    <3>3. left' \in Nat /\ left' = left - w BY <3>1, <3>2 DEF Parsing
    <3>4. CASE TooMany(f, x, left - w)
      <4>1. Read(f, 0, f.ends, TRUE) /\ room' = room BY <3>1, <3>4
      <4> DEFINE ends == f.ends
      <4> HIDE DEF ends
      <4>2. ValuesHold' /\ bad' /\ at' = at + 1 /\ out' \in {"reading", "layout"}
        BY <2>1, <2>2, <4>1, ReadHolds
      <4> QED BY <2>1, <3>3, <4>1, <4>2 DEF Parsing, AllocationsAreBacked, BrokenIsNeverUnread, EventIsWhole
    <3>5. CASE ~TooMany(f, x, left - w)
      <4>1. Read(f, x, x \notin f.known, x \notin f.good) BY <3>1, <3>5
      <4>2. room' \in Int /\ room' >= 0
        <5>1. CASE f.unit > 0
          <6>1. x <= (left - w) \div f.unit /\ x \in Nat /\ left - w \in Nat
            BY <3>1, <3>2, <3>3, <3>5, <5>1 DEF TooMany, Parsing
          <6>2. room' = (left - w) - x * f.unit BY <3>1, <3>5, <5>1
          <6>3. x * f.unit <= left - w
            <7> DEFINE rest == left - w
                       most == rest \div f.unit
            <7>1. rest \in Nat /\ most \in Nat /\ most * f.unit <= rest BY <3>2, <5>1, <6>1
            <7>2. x * f.unit <= most * f.unit BY <3>2, <6>1, <7>1
            <7>3. x * f.unit \in Nat /\ most * f.unit \in Nat BY <3>2, <6>1, <7>1
            <7> QED BY <7>1, <7>2, <7>3
          <6>4. x * f.unit \in Int BY <3>2, <6>1
          <6> QED BY <6>1, <6>2, <6>3, <6>4
        <5>2. CASE ~(f.unit > 0) BY <3>1, <3>5, <5>2 DEF Parsing, AllocationsAreBacked
        <5> QED BY <5>1, <5>2
      <4>3. (x \notin f.good) \in BOOLEAN OBVIOUS
      <4>4. /\ ValuesHold' /\ bad' \in BOOLEAN /\ at' = at + 1
            /\ out' = "reading" \/ out' = "layout" \/ (out' = "unread" /\ ~bad')
        BY <2>1, <2>2, <3>2, <4>1, <4>3, ReadHolds
      <4> QED BY <2>1, <3>3, <4>2, <4>4 DEF Parsing, AllocationsAreBacked, BrokenIsNeverUnread, EventIsWhole
    <3> QED BY <3>4, <3>5
  <2>5. CASE Fail(f) \/ ReadNothing(f)
    <3>1. Read(f, Zero(f.name), Zero(f.name) \notin f.known, TRUE) /\ UNCHANGED <<left, room>>
      BY <2>5 DEF Fail, ReadNothing
    <3>2. f.name \in Numbers => Zero(f.name) \in Nat BY ZeroHolds
    <3> DEFINE zero == Zero(f.name)
               nil == zero \notin f.known
    <3> HIDE DEF zero
    <3>3. Read(f, zero, nil, TRUE) /\ (f.name \in Numbers => zero \in Nat) BY <3>1, <3>2 DEF zero
    <3> HIDE DEF nil
    <3>4. ValuesHold' /\ bad' /\ at' = at + 1 /\ out' \in {"reading", "layout"}
      BY <2>1, <2>2, <3>3, ReadHolds
    <3> QED BY <2>1, <3>1, <3>4 DEF Parsing, AllocationsAreBacked, BrokenIsNeverUnread, EventIsWhole
  <2> QED BY <2>3, <2>4, <2>5
<1>2. CASE ReadAll
  BY <1>2 DEF ReadAll, Parsing, ValuesHold, Returned, Ended, AllocationsAreBacked, BrokenIsNeverUnread, EventIsWhole
<1>3. CASE UNCHANGED vars
  BY <1>3 DEF vars, Parsing, ValuesHold, AllocationsAreBacked, BrokenIsNeverUnread, EventIsWhole
<1> QED BY <1>1, <1>2, <1>3 DEF Next

\* A message is read as an event whole, or its failure is told, whatever its length and its lists',
\* and no count makes room that the payload cannot fill (Parse).
THEOREM MessagesAreWhole == ParseAssumption => (Spec => []MessageIsWhole)
<1> SUFFICES ASSUME ParseAssumption PROVE Spec => []MessageIsWhole OBVIOUS
<1>1. Init => IInv BY InitHolds
<1>2. IInv /\ [Next]_vars => IInv' BY NextHolds
<1>3. IInv => MessageIsWhole BY DEF IInv
<1> QED BY <1>1, <1>2, <1>3, PTL DEF Spec

\* The first read that fails holds the place where it stopped (reader; ErrLayout names the byte).
THEOREM FailuresHoldTheirPlace == Spec => FailureHoldsItsPlace
<1>1. [Next]_vars => [bad => bad' /\ left' = left]_vars
  <2>1. ASSUME Next, bad PROVE bad' /\ left' = left
    <3>1. CASE ReadField BY <2>1, <3>1 DEF ReadField, Take, Fail, ReadNothing, Read
    <3>2. CASE ReadAll BY <2>1, <3>2 DEF ReadAll
    <3> QED BY <2>1, <3>1, <3>2 DEF Next
  <2> QED BY <2>1
<1> QED BY <1>1, PTL DEF Spec, FailureHoldsItsPlace

=============================================================================
