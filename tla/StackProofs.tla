----------------------------- MODULE StackProofs -----------------------------
(***************************************************************************)
(* Lemmas about the machine's stacks: what the array functions give, what  *)
(* the numbers of a program stay in, and what each way of changing a stack *)
(* does to a chain of sound frames.                                        *)
(***************************************************************************)
EXTENDS Frames, TLAPS

----------------------------------------------------------------------------
(* Numbers. *)

(* An int wraps. *)
LEMMA WrapInts == ASSUME NEW n \in Int PROVE Wrap(n) \in Ints
  BY WidthAssumption DEF Wrap, Ints
(* _newInteger makes a number a program may compute with, of any whole     *)
(* number.                                                                 *)
LEMMA IntegerPlain == ASSUME NEW n \in Int PROVE _newInteger(n) \in Plain
  BY WrapInts DEF _newInteger, Value, Plain, Numbers

(* What a program computes with may lie on a stack, is no base point, and  *)
(* taken for a number it is an int.                                        *)
LEMMA PlainWords ==
  /\ Plain \subseteq Elements /\ nil \in Plain
  /\ \A w \in Plain : w.kind # "bp" /\ _Integer_value(w) \subseteq Ints
  /\ \A w \in Elements : w.kind = "bp" => w.n \in Nat
  BY GarbageAssumption DEF Plain, Elements, Numbers, nil, Value, _Integer_value

(* calc gives whole numbers, whatever its operands. *)
LEMMA CalcInt ==
  ASSUME NEW type, NEW f, NEW l \in Int, NEW r \in Int
  PROVE  calc(type, f, l, r) \subseteq Int
<1>1. r # 0 => Quot(l, r) \in Int
  BY DEF Quot, Abs
<1>2. Truth(Holds(type, f, l, r)) \in Int
  BY DEF Truth
<1>3. bits(f, l, r) \subseteq Int
  BY WidthAssumption DEF bits, Ints
<1> QED
  BY <1>1, <1>2, <1>3 DEF calc

----------------------------------------------------------------------------
(* Arrays. *)

(* A push adds one word and keeps the others.                              *)
LEMMA AppendWords ==
  ASSUME NEW E, NEW s \in Seq(E), NEW w \in E
  PROVE  /\ Append(s, w) \in Seq(E) /\ Len(Append(s, w)) = Len(s) + 1
         /\ \A k \in 1 .. Len(s) : Append(s, w)[k] = s[k]
         /\ Append(s, w)[Len(s) + 1] = w
  OBVIOUS

(* Two sequences in a row.                                                 *)
LEMMA ConcatWords ==
  ASSUME NEW E, NEW s \in Seq(E), NEW r \in Seq(E)
  PROVE  /\ s \o r \in Seq(E) /\ Len(s \o r) = Len(s) + Len(r)
         /\ \A k \in 1 .. Len(s) : (s \o r)[k] = s[k]
         /\ \A k \in 1 .. Len(r) : (s \o r)[Len(s) + k] = r[k]
  OBVIOUS

(* The first n words.                                                      *)
LEMMA PrefixWords ==
  ASSUME NEW E, NEW s \in Seq(E), NEW n \in 0 .. Len(s)
  PROVE  /\ SubSeq(s, 1, n) \in Seq(E) /\ Len(SubSeq(s, 1, n)) = n
         /\ \A k \in 1 .. n : SubSeq(s, 1, n)[k] = s[k]
  OBVIOUS

(* Array_pop keeps all but the n topmost words.                            *)
LEMMA PopWords ==
  ASSUME NEW E, NEW s \in Seq(E), NEW n \in 0 .. Len(s)
  PROVE  /\ Array_pop(s, n) \in Seq(E) /\ Len(Array_pop(s, n)) = Len(s) - n
         /\ \A k \in 1 .. Len(s) - n : Array_pop(s, n)[k] = s[k]
<1>1. Len(s) - n \in 0 .. Len(s)
  OBVIOUS
<1> QED
  BY <1>1, PrefixWords DEF Array_pop

(* Array_put changes one word; the array grows by nils where it is too     *)
(* short.                                                                  *)
PutLength(s, i) == IF i < Len(s) THEN Len(s) ELSE i + 1
PutValue(s, i, w, k) == IF k = i + 1 THEN w ELSE IF k <= Len(s) THEN s[k] ELSE nil
LEMMA PutAsFunction ==
  ASSUME NEW E, NEW s \in Seq(E), NEW i \in Nat, NEW w \in E, nil \in E
  PROVE  /\ Array_put(s, i, w) = [k \in 1 .. PutLength(s, i) |-> PutValue(s, i, w, k)]
         /\ \A k \in 1 .. PutLength(s, i) : PutValue(s, i, w, k) \in E
         /\ PutLength(s, i) \in Nat /\ PutLength(s, i) >= Len(s)
<1> DEFINE val(k) == CASE k = i + 1 -> w [] k # i + 1 /\ k <= Len(s) -> s[k] [] OTHER -> nil
<1>1. PutLength(s, i) \in Nat /\ PutLength(s, i) >= Len(s)
  BY DEF PutLength
<1>2. Array_put(s, i, w) = [k \in 1 .. PutLength(s, i) |-> val(k)]
  BY DEF Array_put, PutLength
<1>3. \A k \in 1 .. PutLength(s, i) : val(k) = PutValue(s, i, w, k)
  BY <1>1 DEF PutValue
<1>4. \A k \in 1 .. PutLength(s, i) : PutValue(s, i, w, k) \in E
  BY <1>1 DEF PutValue
<1> HIDE DEF val
<1> QED
  BY <1>1, <1>2, <1>3, <1>4

(* Word by word.                                                           *)
LEMMA PutWords ==
  ASSUME NEW E, NEW s \in Seq(E), NEW i \in Nat, NEW w \in E, nil \in E
  PROVE  /\ Array_put(s, i, w) \in Seq(E)
         /\ Len(Array_put(s, i, w)) = IF i < Len(s) THEN Len(s) ELSE i + 1
         /\ \A k \in 1 .. Len(Array_put(s, i, w)) :
              Array_put(s, i, w)[k] = IF k = i + 1 THEN w
                                      ELSE IF k <= Len(s) THEN s[k] ELSE nil
<1> DEFINE n == PutLength(s, i)
           val(k) == PutValue(s, i, w, k)
<1>1. n \in Nat /\ Array_put(s, i, w) = [k \in 1 .. n |-> val(k)] /\ \A k \in 1 .. n : val(k) \in E
  BY PutAsFunction
<1> HIDE DEF n, val
<1>2. Array_put(s, i, w) \in Seq(E) /\ Len(Array_put(s, i, w)) = n
  BY <1>1
<1> QED
  BY <1>1, <1>2 DEF n, val, PutLength, PutValue

(* In the memory it puts a plain value among plain values.                 *)
LEMMA PutPlain ==
  ASSUME NEW s \in Seq(Plain), NEW i \in Nat, NEW w \in Plain
  PROVE  Array_put(s, i, w) \in Seq(Plain) /\ Len(Array_put(s, i, w)) >= Len(s)
<1> DEFINE n == PutLength(s, i)
           val(k) == PutValue(s, i, w, k)
<1>1. nil \in Plain
  BY PlainWords
<1>2. /\ Array_put(s, i, w) = [k \in 1 .. n |-> val(k)]
      /\ \A k \in 1 .. n : val(k) \in Plain
      /\ n \in Nat /\ n >= Len(s)
  BY <1>1, PutAsFunction
<1> HIDE DEF n, val
<1> QED
  BY <1>2

(* Array_get gives a word of the array or nil.                             *)
LEMMA GetWords ==
  ASSUME NEW E, NEW s \in Seq(E), NEW i \in Int, nil \in E
  PROVE  Array_get(s, i) \in E
  BY DEF Array_get

(* Room for n variables.                                                   *)
LEMMA NilWords ==
  ASSUME NEW n \in Nat
  PROVE  /\ Nils(n) \in Seq({nil}) /\ Len(Nils(n)) = n
         /\ \A k \in 1 .. n : Nils(n)[k] = nil
  BY DEF Nils

(* The base point every look-up finds: the topmost one. *)
LEMMA TopmostBasePoint ==
  ASSUME NEW s \in Seq(Elements), NEW j \in Points(s),
         \A k \in j + 1 .. Len(s) : s[k].kind # "bp"
  PROVE  HasBasePoint(s) /\ BasePoint(s) = j
<1>1. j \in DOMAIN s /\ s[j].kind = "bp"
  BY DEF Points
<1>2. ASSUME NEW m \in DOMAIN s, s[m].kind = "bp",
             \A k \in m + 1 .. Len(s) : s[k].kind # "bp"
      PROVE  m = j
  BY <1>1, <1>2
<1> QED
  BY <1>1, <1>2, Zenon DEF HasBasePoint, BasePoint

----------------------------------------------------------------------------
(* Positions.                                                              *)
Alone == {"calc", "PRINT", "EOE", "EOC", "EOA", "COND", "STARTIMP", "GLOBAL", "GLOBAL_END",
          "RET", "MPOP", "HALT"}
OneOperand == {"MSET", "MSUB", "GET", "GET_L", "GET_G", "DEFINE", "DEFINE_L", "DEFINE_G",
               "ENTRY", "JUMP", "JUMPF", "MKCORE", "MKTHREAD"}
TwoOperands == {"CALL", "MPICK", "TRANS", "COPYCORE", "SETTHREAD"}
ThreeOperands == {"CALL_P", "SETCORE"}
Emitted == {"load"} \cup Alone \cup OneOperand \cup TwoOperands \cup ThreeOperands

(* The three tables agree on every instruction compile() leaves in an      *)
(* image: it counts as many bytes as CodeWrite writes and the machine      *)
(* reads (optimaize.c: manage and the emit macros; generate.c; run.c). They*)
(* differ on break and continue, which become jumps where the loop ends.   *)
THEOREM TablesAgree ==
  ASSUME NEW i, i.op \in Emitted
  PROVE  Counted(i) = Written(i) /\ Written(i) = Read(i)
<1>1. CASE i.op = "load"
  BY <1>1, Zenon DEF Counted, Written, Read
<1>2. CASE i.op \in Alone
  BY <1>2, Zenon DEF Alone, Counted, Written, Read
<1>3. CASE i.op \in OneOperand
  BY <1>3, Zenon DEF OneOperand, Counted, Written, Read
<1>4. CASE i.op \in TwoOperands
  <2>1. INT + INT = 2 * INT
    BY DEF INT
  <2>2. Counted(i) = 1 + 2 * INT /\ Written(i) = 1 + (INT + INT) /\ Read(i) = 1 + 2 * INT
    BY <1>4, Zenon DEF TwoOperands, Counted, Written, Read
  <2> QED
    BY <2>1, <2>2
<1>5. CASE i.op \in ThreeOperands
  <2>1. INT + INT + INT = 3 * INT
    BY DEF INT
  <2>2. Counted(i) = 1 + 3 * INT /\ Written(i) = 1 + (INT + INT + INT) /\ Read(i) = 1 + 3 * INT
    BY <1>5, Zenon DEF ThreeOperands, Counted, Written, Read
  <2> QED
    BY <2>1, <2>2
<1> QED
  BY <1>1, <1>2, <1>3, <1>4, <1>5 DEF Emitted

----------------------------------------------------------------------------
(* What Verifier's tables say, instruction by instruction. *)

(* How many words each instruction takes, ...                              *)
LEMMA TakesTable ==
  ASSUME NEW i
  PROVE  /\ i.op = "calc" => Takes(i) = 2
         /\ i.op \in {"DEFINE", "DEFINE_L", "DEFINE_G", "PRINT", "JUMPF", "RET"} => Takes(i) = 1
         /\ i.op = "CALL" => Takes(i) = i.a
         /\ i.op = "CALL_P" => Takes(i) = i.c
         /\ i.op \in {"load", "GET", "GET_L", "GET_G", "JUMP", "MSUB", "MPICK", "MPOP",
                      "EOA", "EOE", "TRANS", "GLOBAL_END"} => Takes(i) = 0
  BY DEF Takes

(* ... how many it leaves, ...                                             *)
LEMMA GivesTable ==
  ASSUME NEW i
  PROVE  /\ i.op \in {"load", "calc", "GET", "GET_L", "GET_G", "CALL"} => Gives(i) = 1
         /\ i.op = "MSUB" => Gives(i) = i.a
         /\ i.op \in {"DEFINE", "DEFINE_L", "DEFINE_G", "PRINT", "JUMP", "JUMPF", "MPICK",
                      "CALL_P"} => Gives(i) = 0
  BY DEF Gives

(* ... and where it leads to.                                              *)
LEMMA SuccessorsTable ==
  ASSUME NEW im, NEW p
  PROVE  LET i == im.code[p]
             q == Behind(im, p)
         IN  /\ i.op = "JUMP" => Successors(im, p) = {q + i.a}
             /\ i.op = "JUMPF" => Successors(im, p) = {q, q + i.a}
             /\ i.op = "COPYCORE" => Successors(im, p) = {q, q + i.b}
             /\ i.op \in {"load", "calc", "GET", "GET_L", "GET_G", "DEFINE", "DEFINE_L",
                          "DEFINE_G", "PRINT", "CALL", "CALL_P", "MSUB", "MPICK", "MSET",
                          "MKCORE", "SETCORE", "MKTHREAD", "SETTHREAD", "ENTRY"} =>
                  Successors(im, p) = {q}
  BY DEF Successors

(* A CALL is nine bytes long: the way back tells where the call was.       *)
LEMMA CallSize ==
  ASSUME NEW im, NEW p, im.code[p].op = "CALL"
  PROVE  Behind(im, p) = p + CALLSIZE
  BY DEF Behind, Read, CALLSIZE, INT

(* What Verified says of an instruction that is reached.                   *)
LEMMA VerifiedCode ==
  ASSUME NEW im, Verified(im), NEW p \in Reached(im)
  PROVE  /\ p \in DOMAIN im.code /\ p \in Nat /\ Least(im, p) \in Nat
         /\ BodyAt(im, p) \in Reached(im) /\ BodyAt(im, BodyAt(im, p)) = BodyAt(im, p)
         /\ KindAt(im, p) = "main" => MainVerified(im, p)
         /\ KindAt(im, p) # "main" => SubVerified(im, p)
  BY DEF Verified

(* The same, for code that is verified: what each instruction of a body    *)
(* finds on the stack, and how high it leaves it.                          *)
LEMMA BodyVerified ==
  ASSUME NEW im, Verified(im), NEW p \in Reached(im), KindAt(im, p) # "main",
         NEW i, i = im.code[p], NEW q, q = Behind(im, p), NEW least, least = Least(im, p)
  PROVE  /\ i.op \in {"load", "GET", "GET_L", "GET_G"} => Continues(im, p, q, least + 1)
         /\ i.op = "calc" => least >= 2 /\ Continues(im, p, q, least - 1)
         /\ i.op \in {"DEFINE", "DEFINE_L", "DEFINE_G", "PRINT"} =>
              least >= 1 /\ Continues(im, p, q, least - 1)
         /\ i.op = "JUMP" => Continues(im, p, q + i.a, least)
         /\ i.op = "JUMPF" => /\ least >= 1 /\ Continues(im, p, q, least - 1)
                              /\ Continues(im, p, q + i.a, least - 1)
         /\ i.op = "MPICK" => Continues(im, p, q, least)
         /\ i.op = "CALL" => least >= i.a /\ Continues(im, p, q, least - i.a + 1)
         /\ i.op = "CALL_P" => least >= i.c /\ Continues(im, p, q, least - i.c)
         /\ i.op = "MSUB" => i.a \in Nat /\ least = 0 /\ BodyAt(im, p) = p /\ Continues(im, p, q, i.a)
         /\ i.op = "RET" => least >= 1
<1>1. least \in Nat /\ SubVerified(im, p)
  BY VerifiedCode
<1>2. /\ OperandsFit(i) /\ least >= Takes(i)
      /\ \A s \in Successors(im, p) : Continues(im, p, s, least - Takes(i) + Gives(i))
      /\ i.op = "MSUB" => BodyAt(im, p) = p /\ least = 0
  BY <1>1 DEF SubVerified
<1>3. CASE i.op \in {"load", "GET", "GET_L", "GET_G"}
  <2>1. Takes(i) = 0 /\ Gives(i) = 1 /\ Successors(im, p) = {q}
    BY <1>3, TakesTable, GivesTable, SuccessorsTable, Zenon
  <2> QED
    BY <1>1, <1>2, <1>3, <2>1
<1>4. CASE i.op = "calc"
  <2>1. Takes(i) = 2 /\ Gives(i) = 1 /\ Successors(im, p) = {q}
    BY <1>4, TakesTable, GivesTable, SuccessorsTable, Zenon
  <2>2. least - 2 + 1 = least - 1
    BY <1>1
  <2> QED
    BY <1>1, <1>2, <1>4, <2>1, <2>2
<1>5. CASE i.op \in {"DEFINE", "DEFINE_L", "DEFINE_G", "PRINT"}
  <2>1. Takes(i) = 1 /\ Gives(i) = 0 /\ Successors(im, p) = {q}
    BY <1>5, TakesTable, GivesTable, SuccessorsTable, Zenon
  <2>2. least - 1 + 0 = least - 1
    BY <1>1
  <2> QED
    BY <1>1, <1>2, <1>5, <2>1, <2>2
<1>6. CASE i.op = "JUMP"
  <2>1. Takes(i) = 0 /\ Gives(i) = 0 /\ Successors(im, p) = {q + i.a}
    BY <1>6, TakesTable, GivesTable, SuccessorsTable, Zenon
  <2>2. least - 0 + 0 = least
    BY <1>1
  <2> QED
    BY <1>1, <1>2, <1>6, <2>1, <2>2
<1>7. CASE i.op = "JUMPF"
  <2>1. Takes(i) = 1 /\ Gives(i) = 0 /\ Successors(im, p) = {q, q + i.a}
    BY <1>7, TakesTable, GivesTable, SuccessorsTable, Zenon
  <2>2. least - 1 + 0 = least - 1
    BY <1>1
  <2> QED
    BY <1>1, <1>2, <1>7, <2>1, <2>2
<1>8. CASE i.op = "MPICK"
  <2>1. Takes(i) = 0 /\ Gives(i) = 0 /\ Successors(im, p) = {q}
    BY <1>8, TakesTable, GivesTable, SuccessorsTable, Zenon
  <2>2. least - 0 + 0 = least
    BY <1>1
  <2> QED
    BY <1>1, <1>2, <1>8, <2>1, <2>2
<1>9. CASE i.op = "CALL"
  <2>1. Takes(i) = i.a /\ Gives(i) = 1 /\ Successors(im, p) = {q}
    BY <1>9, TakesTable, GivesTable, SuccessorsTable, Zenon
  <2> QED
    BY <1>1, <1>2, <1>9, <2>1
<1>10. CASE i.op = "CALL_P"
  <2>1. Takes(i) = i.c /\ Gives(i) = 0 /\ Successors(im, p) = {q} /\ i.c \in Nat
    BY <1>2, <1>10, TakesTable, GivesTable, SuccessorsTable, Zenon DEF OperandsFit
  <2>2. least - i.c + 0 = least - i.c
    BY <1>1, <2>1
  <2> QED
    BY <1>1, <1>2, <1>10, <2>1, <2>2
<1>11. CASE i.op = "MSUB"
  <2>1. Takes(i) = 0 /\ Gives(i) = i.a /\ Successors(im, p) = {q} /\ i.a \in Nat
    BY <1>2, <1>11, TakesTable, GivesTable, SuccessorsTable, Zenon DEF OperandsFit
  <2>2. least = 0 /\ 0 - 0 + i.a = i.a
    BY <1>2, <1>11, <2>1
  <2> QED
    BY <1>1, <1>2, <1>11, <2>1, <2>2
<1>12. CASE i.op = "RET"
  BY <1>1, <1>2, <1>12, TakesTable
<1> QED
  BY <1>3, <1>4, <1>5, <1>6, <1>7, <1>8, <1>9, <1>10, <1>11, <1>12, Zenon

----------------------------------------------------------------------------
(* Chains of frames. *)

(* A floor is a place on the stack, not above its frame's.                 *)
LEMMA FloorBound ==
  ASSUME NEW s \in Seq(Elements), NEW j \in Nat
  PROVE  Floor(s, j) \in 0 .. j /\ Floor(s, j) <= Len(s)
  BY DEF Floor, Points

(* A link lies below its base point, and only the words there matter.      *)
LEMMA LinkBelow ==
  ASSUME NEW im, Verified(im), NEW first, NEW s \in Seq(Elements), NEW j \in Nat,
         NEW below \in Nat, Linked(im, s, j, below, first)
  PROVE  /\ j - 3 >= Floor(s, below) /\ j >= 3
         /\ s[j - 1].n \in Nat /\ s[j - 1].kind = "int" /\ s[j - 2].kind = "int"
<1> DEFINE call == s[j - 1].n - CALLSIZE
<1>1. call \in Reached(im) /\ j - 3 - Floor(s, below) >= Least(im, call)
  BY DEF Linked
<1>2. call \in Nat /\ Least(im, call) \in Nat
  BY <1>1, VerifiedCode
<1>3. Floor(s, below) \in Nat
  BY FloorBound
<1>4. s[j - 1] = address(call + CALLSIZE) /\ s[j - 2].kind = "int"
  BY DEF Linked, address, Value
<1>5. s[j - 1].n = call + CALLSIZE /\ s[j - 1].kind = "int"
  BY <1>4 DEF address, Value
<1>6. call + CALLSIZE \in Nat
  BY <1>2 DEF CALLSIZE, INT
<1> HIDE DEF call
<1>7. j - 3 >= Floor(s, below)
  BY <1>1, <1>2, <1>3
<1>8. j >= 3
  BY <1>3, <1>7
<1> QED
  BY <1>4, <1>5, <1>6, <1>7, <1>8

(* A link depends on the words under its base point alone.                 *)
LEMMA LinkedSame ==
  ASSUME NEW im, Verified(im), NEW first, NEW s \in Seq(Elements), NEW r \in Seq(Elements),
         NEW j \in Nat, NEW below \in Nat \ {0}, below < j,
         Linked(im, s, j, below, first),
         j - 1 <= Len(s), j - 1 <= Len(r), \A k \in 1 .. j - 1 : r[k] = s[k]
  PROVE  Linked(im, r, j, below, first)
<1>1. j >= 3 /\ r[j - 1] = s[j - 1] /\ r[j - 2] = s[j - 2]
  BY LinkBelow
<1>2. Floor(r, below) = Floor(s, below)
  BY DEF Floor, Points
<1>3. FrameBody(im, r, below, first) = FrameBody(im, s, below, first)
  <2>1. CASE below = 1
    BY <2>1 DEF FrameBody
  <2>2. CASE below # 1
    <3>1. below - 1 \in 1 .. j - 1
      BY <2>2
    <3> QED
      BY <2>2, <3>1 DEF FrameBody
  <2> QED
    BY <2>1, <2>2
<1>4. \A k \in Floor(s, below) + 1 .. j - 3 : r[k] = s[k]
  <2>1. Floor(s, below) \in Nat
    BY FloorBound
  <2> QED
    BY <2>1
<1> QED
  BY <1>1, <1>2, <1>3, <1>4 DEF Linked

(* The body of a frame above the first one is entered by a call.           *)
LEMMA FrameOfCall ==
  ASSUME NEW im, Verified(im), NEW first, NEW s \in Seq(Elements), NEW j \in Nat, j # 1,
         NEW below \in Nat, Linked(im, s, j, below, first)
  PROVE  LET call == s[j - 1].n - CALLSIZE
         IN  /\ FrameBody(im, s, j, first) = Target(im, call)
             /\ call \in Reached(im) /\ OpAt(im, call) = "CALL"
             /\ Calls(im, call, {"function", "advice"})
             /\ KindAt(im, call) = "main" => Calls(im, call, {"advice"})
<1> DEFINE call == s[j - 1].n - CALLSIZE
<1>1. call \in Reached(im) /\ OpAt(im, call) = "CALL"
  BY DEF Linked
<1>2. FrameBody(im, s, j, first) = Target(im, call)
  BY DEF FrameBody
<1>3. CASE KindAt(im, call) = "main"
  BY <1>1, <1>2, <1>3, VerifiedCode DEF MainVerified, OpAt, Calls
<1>4. CASE KindAt(im, call) # "main"
  BY <1>1, <1>2, <1>4, VerifiedCode DEF SubVerified, OpAt
<1> QED
  BY <1>1, <1>2, <1>3, <1>4

(* What a chain says of the topmost frame: rbp is its base point, or no    *)
(* frame has one and rbp is 1.                                             *)
LEMMA ChainTop ==
  ASSUME NEW im, NEW first, NEW t \in Threads, Chained(im, t, first)
  PROVE  LET s == t.stack
             floor == Floor(s, t.rbp)
         IN  /\ s \in Seq(Elements) /\ Points(s) \subseteq 1 .. Len(s)
             /\ t.rbp \in Nat \ {0} /\ \A j \in Points(s) : j <= t.rbp
             /\ floor \in Nat /\ floor <= Len(s)
             /\ \/ t.rbp \in Points(s) /\ floor = t.rbp
                \/ t.rbp = 1 /\ Points(s) = {} /\ floor = 0
<1> DEFINE s == t.stack
<1>1. s \in Seq(Elements) /\ Points(s) \subseteq 1 .. Len(s)
  BY DEF Threads, Points
<1>2. t.rbp \in Points(s) \cup {1} /\ \A j \in Points(s) : j <= t.rbp
  BY DEF Chained
<1>3. t.rbp \in Nat \ {0}
  BY <1>1, <1>2
<1>4. CASE t.rbp \in Points(s)
  BY <1>1, <1>2, <1>3, <1>4 DEF Floor
<1>5. CASE t.rbp \notin Points(s)
  <2>1. t.rbp = 1 /\ Points(s) = {}
    BY <1>1, <1>2, <1>5
  <2> QED
    BY <1>1, <2>1 DEF Floor
<1> QED
  BY <1>4, <1>5

(* What happens above the topmost base point does not touch the chain.     *)
LEMMA ChainSame ==
  ASSUME NEW im, Verified(im), NEW first, NEW t \in Threads, NEW u \in Threads,
         Chained(im, t, first), u.rbp = t.rbp,
         Len(u.stack) >= Floor(t.stack, t.rbp),
         \A k \in 1 .. Floor(t.stack, t.rbp) : u.stack[k] = t.stack[k],
         \A k \in Floor(t.stack, t.rbp) + 1 .. Len(u.stack) : u.stack[k].kind # "bp"
  PROVE  /\ Chained(im, u, first) /\ Points(u.stack) = Points(t.stack)
         /\ Floor(u.stack, u.rbp) = Floor(t.stack, t.rbp)
         /\ FrameBody(im, u.stack, u.rbp, first) = FrameBody(im, t.stack, t.rbp, first)
<1> DEFINE s == t.stack
           r == u.stack
           floor == Floor(s, t.rbp)
<1>1. r \in Seq(Elements) /\ s \in Seq(Elements)
  BY DEF Threads
<1>2. /\ t.rbp \in Nat \ {0} /\ floor \in Nat /\ floor <= Len(s)
      /\ Points(s) \subseteq 1 .. floor
      /\ \/ t.rbp \in Points(s) /\ floor = t.rbp
         \/ t.rbp = 1 /\ Points(s) = {} /\ floor = 0
  <2>1. /\ t.rbp \in Nat \ {0} /\ floor \in Nat /\ floor <= Len(s)
        /\ Points(s) \subseteq 1 .. Len(s) /\ \A j \in Points(s) : j <= t.rbp
        /\ \/ t.rbp \in Points(s) /\ floor = t.rbp
           \/ t.rbp = 1 /\ Points(s) = {} /\ floor = 0
    BY ChainTop
  <2>2. \A j \in Points(s) : j \in 1 .. floor
    BY <2>1
  <2> QED
    BY <2>1, <2>2
<1>3. Points(r) = Points(s)
  <2>1. Len(r) \in Nat /\ Len(s) \in Nat /\ DOMAIN r = 1 .. Len(r) /\ DOMAIN s = 1 .. Len(s)
    BY <1>1
  <2>2. ASSUME NEW k \in Points(r)
        PROVE  k \in Points(s)
    <3>1. k \in 1 .. Len(r) /\ r[k].kind = "bp"
      BY <2>1 DEF Points
    <3>2. k \in 1 .. floor
      BY <1>2, <3>1
    <3> QED
      BY <1>2, <2>1, <3>1, <3>2 DEF Points
  <2>3. ASSUME NEW k \in Points(s)
        PROVE  k \in Points(r)
    <3>1. k \in 1 .. floor /\ s[k].kind = "bp"
      BY <1>2 DEF Points
    <3> QED
      BY <1>2, <2>1, <3>1 DEF Points
  <2> QED
    BY <2>2, <2>3
<1>4. Floor(r, u.rbp) = floor
  BY <1>3 DEF Floor
<1>5. FrameBody(im, r, u.rbp, first) = FrameBody(im, s, t.rbp, first)
  <2>1. CASE t.rbp = 1
    BY <2>1 DEF FrameBody
  <2>2. CASE t.rbp # 1
    <3>1. t.rbp - 1 \in 1 .. floor
      BY <1>2, <2>2
    <3> QED
      BY <2>2, <3>1 DEF FrameBody
  <2> QED
    BY <2>1, <2>2
<1>6. ASSUME NEW j \in Points(s) \ {1}
      PROVE  /\ r[j].n \in Points(r) \cup {1} /\ r[j].n < j
             /\ Linked(im, r, j, r[j].n, first)
  <2>1. j \in 1 .. floor /\ r[j] = s[j]
    BY <1>2
  <2>2. s[j].n \in Points(s) \cup {1} /\ s[j].n < j /\ Linked(im, s, j, s[j].n, first)
    BY DEF Chained
  <2>3. s[j].n \in Nat \ {0}
    BY <1>2, <2>2
  <2>4. /\ j \in Nat /\ j - 1 <= Len(s) /\ j - 1 <= Len(r)
        /\ \A k \in 1 .. j - 1 : r[k] = s[k]
    BY <1>1, <1>2, <2>1
  <2>5. Linked(im, r, j, s[j].n, first)
    BY <1>1, <2>2, <2>3, <2>4, LinkedSame
  <2> QED
    BY <1>3, <2>1, <2>2, <2>5
<1>7. Chained(im, u, first)
  BY <1>2, <1>3, <1>6 DEF Chained
<1> QED
  BY <1>3, <1>4, <1>5, <1>7

(* The words of the first frame's base point stay where they are.          *)
KeepsFirst(s, r) == 1 \in Points(s) => 1 \in Points(r) /\ r[1] = s[1]

(* Work inside a frame: the code goes on in its body and leaves numbers    *)
(* above the base point, as many as the next instruction expects.          *)
LEMMA WorkSound ==
  ASSUME NEW im, Verified(im), NEW first, NEW t \in Threads, NEW u \in Threads, NEW height,
         Sound(im, t, first), Inside(im, t, first),
         Continues(im, t.pc, u.pc, height), u.rbp = t.rbp,
         Len(u.stack) >= Floor(t.stack, t.rbp),
         Len(u.stack) - Floor(t.stack, t.rbp) >= Least(im, u.pc),
         \A k \in 1 .. Floor(t.stack, t.rbp) : u.stack[k] = t.stack[k],
         \A k \in Floor(t.stack, t.rbp) + 1 .. Len(u.stack) : u.stack[k] \in Plain
  PROVE  Sound(im, u, first) /\ KeepsFirst(t.stack, u.stack)
<1>1. Chained(im, t, first)
  BY DEF Sound
<1>2. \A k \in Floor(t.stack, t.rbp) + 1 .. Len(u.stack) : u.stack[k].kind # "bp"
  BY PlainWords
<1>3. /\ Chained(im, u, first) /\ Points(u.stack) = Points(t.stack)
      /\ Floor(u.stack, u.rbp) = Floor(t.stack, t.rbp)
      /\ FrameBody(im, u.stack, u.rbp, first) = FrameBody(im, t.stack, t.rbp, first)
  BY <1>1, <1>2, ChainSame
<1>4. /\ u.pc \in Reached(im) /\ OpAt(im, u.pc) \notin {"MSUB", "EOE"}
      /\ BodyAt(im, u.pc) = BodyAt(im, t.pc)
  BY DEF Continues
<1>5. KindAt(im, u.pc) # "main"
  BY <1>4 DEF Sound, KindAt
<1>6. Inside(im, u, first)
  BY <1>3, <1>4 DEF Inside
<1>7. ASSUME 1 \in Points(t.stack)
      PROVE  u.stack[1] = t.stack[1]
  <2>1. Floor(t.stack, t.rbp) = t.rbp /\ t.rbp \in Nat \ {0}
    BY <1>1, <1>7, ChainTop
  <2>2. 1 \in 1 .. Floor(t.stack, t.rbp)
    BY <2>1
  <2> QED
    BY <2>2
<1> QED
  BY <1>3, <1>4, <1>5, <1>6, <1>7 DEF Sound, KeepsFirst

(* A call: what it leaves on the stack is a link from the running frame.   *)
LEMMA CallSound ==
  ASSUME NEW im, Verified(im), NEW first, NEW t \in Threads, NEW u \in Threads,
         Sound(im, t, first), OpAt(im, t.pc) = "CALL",
         u.pc = Target(im, t.pc), u.rbp = t.rbp,
         u.stack = t.stack \o <<address(im.code[t.pc].a), address(Behind(im, t.pc))>>
  PROVE  Sound(im, u, first) /\ KeepsFirst(t.stack, u.stack)
<1> DEFINE s == t.stack
           r == u.stack
           a == im.code[t.pc].a
           floor == Floor(s, t.rbp)
<1>1. /\ t.pc \in Reached(im) /\ t.pc \in Nat /\ SubVerified(im, t.pc)
      /\ Chained(im, t, first) /\ Inside(im, t, first)
  BY VerifiedCode DEF Sound
<1>2. /\ a \in Nat /\ Behind(im, t.pc) = t.pc + CALLSIZE /\ t.pc + CALLSIZE \in Nat
      /\ Calls(im, t.pc, {"function", "advice"})
  BY <1>1, CallSize DEF SubVerified, OperandsFit, OpAt, CALLSIZE, INT
<1>3. address(a) \in Elements /\ address(t.pc + CALLSIZE) \in Elements
  BY <1>2 DEF address, Value, Elements
<1>4. /\ s \in Seq(Elements) /\ Len(r) = Len(s) + 2
      /\ \A k \in 1 .. Len(s) : r[k] = s[k]
      /\ r[Len(s) + 1] = address(a) /\ r[Len(s) + 2] = address(t.pc + CALLSIZE)
  BY <1>2, <1>3 DEF Threads
<1>5. floor \in Nat /\ floor <= Len(s) /\ t.rbp \in Nat \ {0}
  BY <1>1, ChainTop
<1>6. \A k \in floor + 1 .. Len(s) : s[k] \in Plain
  BY <1>1 DEF Inside
<1>7. \A k \in floor + 1 .. Len(r) : r[k].kind # "bp"
  BY <1>4, <1>5, <1>6, PlainWords DEF address, Value
<1>8. /\ Chained(im, u, first) /\ Points(r) = Points(s)
      /\ Floor(r, u.rbp) = floor
      /\ FrameBody(im, r, u.rbp, first) = FrameBody(im, s, t.rbp, first)
  <2>1. Len(r) >= floor /\ \A k \in 1 .. floor : r[k] = s[k]
    BY <1>4, <1>5
  <2> HIDE DEF a
  <2> QED
    BY <1>1, <1>7, <2>1, ChainSame
<1>9. /\ (Len(r) + 1) - 1 = Len(s) + 2 /\ (Len(r) + 1) - 2 = Len(s) + 1
      /\ (Len(r) + 1) - 3 = Len(s) /\ Len(r) + 1 # 1
  BY <1>4
<1>10. r[(Len(r) + 1) - 1].n - CALLSIZE = t.pc
  BY <1>1, <1>4, <1>9 DEF address, Value, CALLSIZE, INT
<1>11. FrameBody(im, r, Len(r) + 1, first) = u.pc
  BY <1>9, <1>10 DEF FrameBody
<1>12. Linked(im, r, Len(r) + 1, u.rbp, first)
  <2>1. BodyAt(im, t.pc) = FrameBody(im, r, u.rbp, first)
    BY <1>1, <1>8 DEF Inside
  <2>2. Len(s) - Floor(r, u.rbp) >= Least(im, t.pc)
    BY <1>1, <1>8 DEF Inside
  <2>3. \A k \in Floor(r, u.rbp) + 1 .. Len(s) : r[k] \in Plain
    BY <1>4, <1>5, <1>6, <1>8
  <2> QED
    BY <1>1, <1>4, <1>9, <1>10, <2>1, <2>2, <2>3 DEF Linked
<1>13. /\ u.pc \in Reached(im) /\ OpAt(im, u.pc) = "MSUB" /\ KindAt(im, u.pc) # "main"
  BY <1>2 DEF Calls
<1>14. KeepsFirst(s, r)
  BY <1>4, <1>8 DEF KeepsFirst, Points
<1> QED
  BY <1>8, <1>11, <1>12, <1>13, <1>14 DEF Sound, Entering

(* Two stacks agree on their first n words; above n there is no base point;*)
(* above n there are numbers.                                              *)
Agree(s, r, n) == \A k \in 1 .. n : r[k] = s[k]
NoPoints(r, n) == \A k \in n + 1 .. Len(r) : r[k].kind # "bp"
PlainAbove(r, n) == \A k \in n + 1 .. Len(r) : r[k] \in Plain

(* Where only numbers are there is no base point.                          *)
LEMMA PlainNoPoints ==
  ASSUME NEW r, NEW n, PlainAbove(r, n)
  PROVE  NoPoints(r, n)
  BY PlainWords DEF PlainAbove, NoPoints

(* MSUB: the link gets its base point, and a frame begins.                 *)
LEMMA PointsOnTop ==
  ASSUME NEW s \in Seq(Elements), NEW r \in Seq(Elements), NEW top \in Nat, top = Len(s) + 1,
         NEW a \in Nat, Len(r) = top + a, r[top].kind = "bp",
         Agree(s, r, top - 1), NoPoints(r, top)
  PROVE  Points(r) = Points(s) \cup {top}
<1>1. DOMAIN r = 1 .. top + a /\ DOMAIN s = 1 .. top - 1
  OBVIOUS
<1>2. ASSUME NEW k \in Points(r)
      PROVE  k \in Points(s) \cup {top}
  <2>1. k \in 1 .. top + a /\ r[k].kind = "bp"
    BY <1>1 DEF Points
  <2>2. k \notin top + 1 .. top + a
    BY <2>1 DEF NoPoints
  <2>3. k = top \/ k \in 1 .. top - 1
    BY <2>1, <2>2
  <2>4. CASE k \in 1 .. top - 1
    BY <1>1, <2>1, <2>4 DEF Points, Agree
  <2> QED
    BY <2>3, <2>4
<1>3. ASSUME NEW k \in Points(s)
      PROVE  k \in Points(r)
  <2>1. k \in 1 .. top - 1 /\ s[k].kind = "bp"
    BY <1>1 DEF Points
  <2>2. k \in 1 .. top + a
    BY <2>1
  <2> QED
    BY <1>1, <2>1, <2>2 DEF Points, Agree
<1>4. top \in Points(r)
  BY <1>1 DEF Points
<1> QED
  BY <1>2, <1>3, <1>4

(* A chain stays one under a new base point whose link is sound.           *)
LEMMA ChainOnTop ==
  ASSUME NEW im, Verified(im), NEW first, NEW t \in Threads, NEW u \in Threads,
         NEW top \in Nat, top = Len(t.stack) + 1, NEW a \in Nat,
         Chained(im, t, first), Linked(im, t.stack, top, t.rbp, first),
         u.rbp = top, Len(u.stack) = top + a, u.stack[top] = new_Basepoint(t.rbp),
         Agree(t.stack, u.stack, top - 1), NoPoints(u.stack, top)
  PROVE  /\ Chained(im, u, first) /\ Points(u.stack) = Points(t.stack) \cup {top}
         /\ top >= 3
<1> DEFINE s == t.stack
           r == u.stack
<1>1. s \in Seq(Elements) /\ r \in Seq(Elements)
  BY DEF Threads
<1>2. r[top].kind = "bp" /\ r[top].n = t.rbp
  BY DEF new_Basepoint, Value
<1>3. /\ t.rbp \in Nat \ {0} /\ Points(s) \subseteq 1 .. top - 1
      /\ t.rbp \in Points(s) \cup {1} /\ \A j \in Points(s) : j <= t.rbp
  <2>1. /\ t.rbp \in Nat \ {0} /\ Points(s) \subseteq 1 .. Len(s)
        /\ \A j \in Points(s) : j <= t.rbp
        /\ t.rbp \in Points(s) \/ t.rbp = 1
    BY ChainTop
  <2>2. Points(s) \subseteq 1 .. top - 1
    BY <1>1, <2>1
  <2> QED
    BY <2>1, <2>2
<1>4. Points(r) = Points(s) \cup {top}
  <2>1. top = Len(s) + 1 /\ Len(r) = top + a /\ Agree(s, r, top - 1) /\ NoPoints(r, top)
    OBVIOUS
  <2> HIDE DEF s, r
  <2> QED
    BY <1>1, <1>2, <2>1, PointsOnTop
<1>5. top >= 3
  BY <1>1, <1>3, LinkBelow
<1>6. t.rbp < top
  BY <1>3, <1>5
<1>7. ASSUME NEW j \in 1 .. top, NEW below \in Nat \ {0}, below < j,
             Linked(im, s, j, below, first)
      PROVE  Linked(im, r, j, below, first)
  <2>1. /\ j \in Nat /\ j - 1 <= Len(s) /\ j - 1 <= Len(r)
        /\ \A k \in 1 .. j - 1 : r[k] = s[k]
    <3>1. j \in Nat /\ j - 1 <= Len(s) /\ j - 1 <= Len(r)
      BY <1>1
    <3>2. \A k \in 1 .. j - 1 : k \in 1 .. top - 1
      OBVIOUS
    <3>3. \A k \in 1 .. top - 1 : r[k] = s[k]
      BY DEF Agree
    <3> QED
      BY <3>1, <3>2, <3>3
  <2> QED
    BY <1>1, <1>7, <2>1, LinkedSame
<1>8. \A j \in Points(r) \cup {1} : j <= top
  BY <1>3, <1>4, <1>5
<1>9. ASSUME NEW j \in Points(r) \ {1}
      PROVE  /\ r[j].n \in Points(r) \cup {1} /\ r[j].n < j
             /\ Linked(im, r, j, r[j].n, first)
  <2>1. CASE j = top
    <3>1. Linked(im, r, top, t.rbp, first)
      <4>1. top \in 1 .. top
        BY <1>5
      <4> QED
        BY <1>3, <1>6, <1>7, <4>1
    <3> QED
      BY <1>2, <1>3, <1>4, <1>6, <2>1, <3>1
  <2>2. CASE j # top
    <3>1. j \in Points(s) \ {1}
      BY <1>4, <2>2
    <3>2. j \in 1 .. top - 1 /\ r[j] = s[j]
      BY <1>3, <3>1 DEF Agree
    <3>3. s[j].n \in Points(s) \cup {1} /\ s[j].n < j /\ Linked(im, s, j, s[j].n, first)
      BY <3>1 DEF Chained
    <3>4. s[j].n \in Nat \ {0} /\ j \in 1 .. top
      BY <1>3, <3>2, <3>3
    <3>5. Linked(im, r, j, s[j].n, first)
      BY <1>7, <3>3, <3>4
    <3> QED
      BY <1>4, <3>2, <3>3, <3>5
  <2> QED
    BY <2>1, <2>2
<1>10. Chained(im, u, first)
  BY <1>4, <1>8, <1>9 DEF Chained
<1> QED
  BY <1>4, <1>5, <1>10

(* In front of MSUB the thread is at the entry of a body; behind it,       *)
(* inside.                                                                 *)
LEMMA MSubSound ==
  ASSUME NEW im, Verified(im), NEW first, NEW t \in Threads, NEW u \in Threads,
         NEW top \in Nat, top = Len(t.stack) + 1, NEW a \in Nat, a = im.code[t.pc].a,
         Sound(im, t, first), OpAt(im, t.pc) = "MSUB",
         u.pc = Behind(im, t.pc), u.rbp = top, Len(u.stack) = top + a,
         u.stack[top] = new_Basepoint(t.rbp),
         Agree(t.stack, u.stack, top - 1), PlainAbove(u.stack, top)
  PROVE  Sound(im, u, first) /\ KeepsFirst(t.stack, u.stack)
<1> DEFINE s == t.stack
           r == u.stack
<1>1. /\ t.pc \in Reached(im) /\ SubVerified(im, t.pc) /\ KindAt(im, t.pc) # "main"
      /\ Chained(im, t, first) /\ Entering(im, t, first)
  BY VerifiedCode DEF Sound
<1>2. Linked(im, s, top, t.rbp, first) /\ FrameBody(im, s, top, first) = t.pc
  BY <1>1 DEF Entering
<1>3. /\ Chained(im, u, first) /\ Points(r) = Points(s) \cup {top} /\ top >= 3
  <2>1. NoPoints(r, top)
    BY PlainNoPoints
  <2> QED
    BY <1>1, <1>2, <2>1, ChainOnTop
<1>4. BodyAt(im, t.pc) = t.pc /\ Least(im, t.pc) = 0
  BY <1>1 DEF SubVerified, OpAt
<1>5. /\ u.pc \in Reached(im) /\ OpAt(im, u.pc) \notin {"MSUB", "EOE"}
      /\ BodyAt(im, u.pc) = t.pc /\ Least(im, u.pc) <= a
  <2>1. Continues(im, t.pc, u.pc, a)
    BY <1>1, BodyVerified DEF OpAt
  <2> QED
    BY <1>4, <2>1 DEF Continues
<1>6. KindAt(im, u.pc) # "main"
  BY <1>1, <1>4, <1>5 DEF KindAt
<1>7. Inside(im, u, first)
  <2>1. Floor(r, top) = top
    BY <1>3 DEF Floor
  <2>2. FrameBody(im, r, top, first) = t.pc
    <3>1. top # 1 /\ top - 1 \in 1 .. top - 1
      <4>1. top \in Nat /\ top >= 3
        BY <1>3
      <4> HIDE DEF s, r
      <4> QED
        BY ONLY <4>1
    <3>2. r[top - 1] = s[top - 1]
      BY <3>1 DEF Agree
    <3> QED
      BY <1>2, <3>1, <3>2 DEF FrameBody
  <2>3. Len(r) - top >= Least(im, u.pc)
    BY <1>5, VerifiedCode
  <2>4. \A k \in top + 1 .. Len(r) : r[k] \in Plain
    BY DEF PlainAbove
  <2> QED
    BY <1>5, <2>1, <2>2, <2>3, <2>4 DEF Inside
<1>8. KeepsFirst(s, r)
  <2>1. 1 \in 1 .. top - 1
    BY <1>3
  <2> QED
    BY <1>3, <2>1 DEF KeepsFirst, Agree
<1> QED
  BY <1>3, <1>5, <1>6, <1>7, <1>8 DEF Sound

(* A return: the frames above `below' are gone, and those under it are as  *)
(* they were.                                                              *)
LEMMA ChainCut ==
  ASSUME NEW im, Verified(im), NEW first, NEW t \in Threads, NEW u \in Threads,
         NEW below \in Points(t.stack) \cup {1}, NEW floor, floor = Floor(t.stack, below),
         Chained(im, t, first), u.rbp = below, Len(u.stack) >= floor,
         Agree(t.stack, u.stack, floor), NoPoints(u.stack, floor)
  PROVE  /\ Chained(im, u, first) /\ Points(u.stack) = {j \in Points(t.stack) : j <= floor}
         /\ Floor(u.stack, below) = floor
         /\ FrameBody(im, u.stack, below, first) = FrameBody(im, t.stack, below, first)
<1> DEFINE s == t.stack
           r == u.stack
<1>1. /\ s \in Seq(Elements) /\ r \in Seq(Elements)
      /\ DOMAIN s = 1 .. Len(s) /\ DOMAIN r = 1 .. Len(r) /\ Len(s) \in Nat /\ Len(r) \in Nat
  BY DEF Threads
<1>2. /\ below \in Nat \ {0} /\ floor \in Nat /\ floor <= Len(s) /\ floor <= below
      /\ \/ below \in Points(s) /\ floor = below
         \/ below = 1 /\ below \notin Points(s) /\ floor = 0
  BY <1>1 DEF Points, Floor
<1>3. Points(r) = {j \in Points(s) : j <= floor}
  <2>1. ASSUME NEW k \in Points(r)
        PROVE  k \in Points(s) /\ k <= floor
    <3>1. k \in 1 .. Len(r) /\ r[k].kind = "bp"
      BY <1>1 DEF Points
    <3>2. k \in 1 .. floor
      BY <1>2, <3>1 DEF NoPoints
    <3> QED
      BY <1>1, <1>2, <3>1, <3>2 DEF Points, Agree
  <2>2. ASSUME NEW k \in Points(s), k <= floor
        PROVE  k \in Points(r)
    <3>1. k \in 1 .. floor /\ s[k].kind = "bp"
      BY <1>1, <1>2, <2>2 DEF Points
    <3>2. k \in 1 .. Len(r) /\ r[k] = s[k]
      BY <1>1, <1>2, <3>1 DEF Agree
    <3> QED
      BY <1>1, <3>1, <3>2 DEF Points
  <2> QED
    BY <2>1, <2>2
<1>4. Floor(r, below) = floor
  BY <1>2, <1>3 DEF Floor
<1>5. FrameBody(im, r, below, first) = FrameBody(im, s, below, first)
  <2>1. CASE below = 1
    BY <2>1 DEF FrameBody
  <2>2. CASE below # 1
    <3>1. below - 1 \in 1 .. floor
      BY <1>2, <2>2
    <3> QED
      BY <2>2, <3>1 DEF FrameBody, Agree
  <2> QED
    BY <2>1, <2>2
<1>6. below \in Points(r) \cup {1} /\ \A j \in Points(r) \cup {1} : j <= below
  BY <1>2, <1>3
<1>7. ASSUME NEW j \in Points(r) \ {1}
      PROVE  /\ r[j].n \in Points(r) \cup {1} /\ r[j].n < j
             /\ Linked(im, r, j, r[j].n, first)
  <2>1. j \in Points(s) \ {1} /\ j \in 1 .. floor /\ j <= floor
    BY <1>1, <1>2, <1>3 DEF Points
  <2>2. r[j] = s[j]
    BY <2>1 DEF Agree
  <2>3. s[j].n \in Points(s) \cup {1} /\ s[j].n < j /\ Linked(im, s, j, s[j].n, first)
    BY <2>1 DEF Chained
  <2>4. s[j].n \in Nat \ {0}
    BY <1>1, <2>3 DEF Points
  <2>5. s[j].n \in Points(r) \cup {1}
    BY <1>2, <1>3, <2>1, <2>3, <2>4
  <2>6. /\ j \in Nat /\ j - 1 <= Len(s) /\ j - 1 <= Len(r)
        /\ \A k \in 1 .. j - 1 : r[k] = s[k]
    <3>1. j \in Nat /\ j - 1 <= floor /\ floor <= Len(s) /\ floor <= Len(r)
      BY <1>2, <2>1
    <3>2. \A k \in 1 .. floor : r[k] = s[k]
      BY DEF Agree
    <3>3. j - 1 <= Len(s) /\ j - 1 <= Len(r)
      BY <1>1, <1>2, <3>1
    <3>4. \A k \in 1 .. j - 1 : k \in 1 .. floor
      BY <1>2, <3>1
    <3> QED
      BY <3>1, <3>2, <3>3, <3>4
  <2>7. Linked(im, r, j, s[j].n, first)
    BY <1>1, <2>3, <2>4, <2>6, LinkedSame
  <2> QED
    BY <2>2, <2>3, <2>5, <2>7
<1>8. Chained(im, u, first)
  BY <1>6, <1>7 DEF Chained
<1> QED
  BY <1>3, <1>4, <1>5, <1>8

(* Of the running frame: the call it was entered by, the base point of the *)
(* frame of that call, and where its words begin.                          *)
CallOf(t) == t.stack[t.rbp - 1].n - CALLSIZE
BelowOf(t) == t.stack[t.rbp].n
FloorBelow(t) == Floor(t.stack, BelowOf(t))

(* Behind a call the thread is inside the caller's frame again, high       *)
(* enough for what comes next.                                             *)
LEMMA ReturnSound ==
  ASSUME NEW im, Verified(im), NEW first, NEW t \in Threads, NEW u \in Threads,
         NEW height, t.rbp \in Points(t.stack), t.rbp # 1,
         Sound(im, t, first), KindAt(im, CallOf(t)) # "main",
         Continues(im, CallOf(t), u.pc, height), u.rbp = BelowOf(t),
         Len(u.stack) >= FloorBelow(t), Len(u.stack) - FloorBelow(t) >= Least(im, u.pc),
         Agree(t.stack, u.stack, FloorBelow(t)), PlainAbove(u.stack, FloorBelow(t))
  PROVE  Sound(im, u, first) /\ KeepsFirst(t.stack, u.stack)
<1> DEFINE s == t.stack
           r == u.stack
           call == CallOf(t)
           below == BelowOf(t)
           floor == FloorBelow(t)
<1>1. Chained(im, t, first)
  BY DEF Sound
<1>2. below \in Points(s) \cup {1} /\ Linked(im, s, t.rbp, below, first)
  BY <1>1 DEF Chained, BelowOf
<1>3. /\ Chained(im, u, first) /\ Points(r) = {j \in Points(s) : j <= floor}
      /\ Floor(r, below) = floor
      /\ FrameBody(im, r, below, first) = FrameBody(im, s, below, first)
  <2>1. NoPoints(r, floor)
    BY PlainNoPoints
  <2> QED
    BY <1>1, <1>2, <2>1, ChainCut DEF FloorBelow
<1>4. BodyAt(im, call) = FrameBody(im, s, below, first)
  BY <1>2 DEF Linked, CallOf
<1>5. /\ u.pc \in Reached(im) /\ OpAt(im, u.pc) \notin {"MSUB", "EOE"}
      /\ BodyAt(im, u.pc) = BodyAt(im, call)
  BY DEF Continues
<1>6. KindAt(im, u.pc) # "main"
  BY <1>5 DEF KindAt
<1>7. Inside(im, u, first)
  BY <1>3, <1>4, <1>5 DEF Inside, PlainAbove
<1>8. KeepsFirst(s, r)
  <2>1. ASSUME 1 \in Points(s)
        PROVE  1 \in Points(r) /\ r[1] = s[1]
    <3>1. below \in Points(s) /\ below \in Nat \ {0}
      BY <1>2, <2>1 DEF Points, Threads
    <3>2. 1 <= floor /\ 1 \in 1 .. floor
      BY <3>1 DEF Floor, FloorBelow
    <3> QED
      BY <1>3, <2>1, <3>2 DEF Agree
  <2> QED
    BY <2>1 DEF KeepsFirst
<1> QED
  BY <1>3, <1>5, <1>6, <1>7, <1>8 DEF Sound

----------------------------------------------------------------------------
(* Instructions that work inside the running frame. Kept(t, r): r is a     *)
(* stack that differs from that of t only above the topmost base point.    *)
FloorOf(t) == Floor(t.stack, t.rbp)
Height(t, r) == Len(r) - FloorOf(t)
Kept(t, r) ==
  /\ r \in Seq(Elements) /\ Len(r) >= FloorOf(t)
  /\ Agree(t.stack, r, FloorOf(t)) /\ PlainAbove(r, FloorOf(t))

(* The floor of the running frame is a number not above rbp.               *)
LEMMA FloorNat ==
  ASSUME NEW t \in Threads
  PROVE  FloorOf(t) \in Nat /\ FloorOf(t) <= t.rbp
  BY FloorBound DEF FloorOf, Threads

(* A stack keeps its own frame, and is as high as the verifier expects.    *)
LEMMA KeptSame ==
  ASSUME NEW im, NEW first, NEW t \in Threads, Inside(im, t, first)
  PROVE  Kept(t, t.stack) /\ Height(t, t.stack) \in Nat /\ Height(t, t.stack) >= Least(im, t.pc)
<1>1. t.stack \in Seq(Elements) /\ FloorOf(t) \in Nat /\ FloorOf(t) <= Len(t.stack)
  BY FloorBound DEF FloorOf, Threads
<1>2. /\ Agree(t.stack, t.stack, FloorOf(t)) /\ PlainAbove(t.stack, FloorOf(t))
      /\ Len(t.stack) - FloorOf(t) >= Least(im, t.pc)
  BY DEF Inside, Agree, PlainAbove, FloorOf
<1> QED
  BY <1>1, <1>2 DEF Kept, Height

(* A push of a number keeps the frame and makes it one word higher, ...    *)
LEMMA KeptPush ==
  ASSUME NEW t \in Threads, NEW r, Kept(t, r), NEW w \in Plain
  PROVE  Kept(t, Append(r, w)) /\ Height(t, Append(r, w)) = Height(t, r) + 1
<1> DEFINE q == Append(r, w)
<1>1. r \in Seq(Elements) /\ w \in Elements /\ FloorOf(t) \in Nat /\ Len(r) >= FloorOf(t)
  BY PlainWords, FloorNat DEF Kept
<1>2. /\ q \in Seq(Elements) /\ Len(q) = Len(r) + 1 /\ Len(r) \in Nat
      /\ \A k \in 1 .. Len(r) : q[k] = r[k]
      /\ q[Len(r) + 1] = w
  BY <1>1, AppendWords
<1> HIDE DEF q
<1>3. Agree(t.stack, q, FloorOf(t))
  BY <1>1, <1>2 DEF Kept, Agree
<1>4. PlainAbove(q, FloorOf(t))
  <2>1. ASSUME NEW k \in FloorOf(t) + 1 .. Len(q)
        PROVE  q[k] \in Plain
    <3>1. k = Len(r) + 1 \/ (k \in FloorOf(t) + 1 .. Len(r) /\ k \in 1 .. Len(r))
      BY <1>1, <1>2
    <3> QED
      BY <1>2, <3>1 DEF Kept, PlainAbove
  <2> QED
    BY <2>1 DEF PlainAbove
<1>5. Len(q) >= FloorOf(t) /\ Len(q) - FloorOf(t) = Len(r) - FloorOf(t) + 1
  BY <1>1, <1>2
<1>6. Kept(t, q) /\ Height(t, q) = Height(t, r) + 1
  BY <1>2, <1>3, <1>4, <1>5 DEF Kept, Height
<1> QED
  BY <1>6 DEF q

(* ... a pop of what lies in the frame makes it lower ...                  *)
LEMMA KeptPop ==
  ASSUME NEW t \in Threads, NEW r, Kept(t, r), NEW n \in Nat, n <= Height(t, r)
  PROVE  Kept(t, Array_pop(r, n)) /\ Height(t, Array_pop(r, n)) = Height(t, r) - n
<1> DEFINE q == Array_pop(r, n)
<1>1. r \in Seq(Elements) /\ FloorOf(t) \in Nat /\ Len(r) - FloorOf(t) >= n /\ n \in 0 .. Len(r)
  BY FloorNat DEF Kept, Height
<1>2. /\ q \in Seq(Elements) /\ Len(q) = Len(r) - n /\ Len(r) \in Nat
      /\ \A k \in 1 .. Len(r) - n : q[k] = r[k]
  BY <1>1, PopWords
<1> HIDE DEF q
<1>3. Agree(t.stack, q, FloorOf(t)) /\ PlainAbove(q, FloorOf(t))
  <2>1. Agree(t.stack, r, FloorOf(t)) /\ PlainAbove(r, FloorOf(t))
    BY DEF Kept
  <2>2. /\ \A k \in 1 .. FloorOf(t) : k \in 1 .. Len(r) - n
        /\ \A k \in FloorOf(t) + 1 .. Len(q) :
             k \in 1 .. Len(r) - n /\ k \in FloorOf(t) + 1 .. Len(r)
    BY <1>1, <1>2
  <2>3. Agree(t.stack, q, FloorOf(t))
    BY <1>2, <2>1, <2>2 DEF Agree
  <2>4. PlainAbove(q, FloorOf(t))
    BY <1>2, <2>1, <2>2 DEF PlainAbove
  <2> QED
    BY <2>3, <2>4
<1>4. Len(q) >= FloorOf(t) /\ Len(q) - FloorOf(t) = Len(r) - FloorOf(t) - n
  BY <1>1, <1>2
<1>5. Kept(t, q) /\ Height(t, q) = Height(t, r) - n
  BY <1>2, <1>3, <1>4 DEF Kept, Height
<1> QED
  BY <1>5 DEF q

(* ... and finds a number, ...                                             *)
LEMMA KeptTop ==
  ASSUME NEW t \in Threads, NEW r, Kept(t, r), Height(t, r) >= 1
  PROVE  Top(r) \in Plain /\ Len(r) >= 1
<1>1. r \in Seq(Elements) /\ FloorOf(t) \in Nat /\ Len(r) - FloorOf(t) >= 1
  BY FloorNat DEF Kept, Height
<1>2. Len(r) \in FloorOf(t) + 1 .. Len(r) /\ Len(r) >= 1
  BY <1>1
<1> QED
  BY <1>2 DEF Kept, PlainAbove, Top

(* ... a read above the base point finds a number or nil ...               *)
LEMMA KeptGet ==
  ASSUME NEW t \in Threads, NEW r, Kept(t, r), NEW i \in Nat, i >= FloorOf(t)
  PROVE  Array_get(r, i) \in Plain
<1>1. r \in Seq(Elements) /\ FloorOf(t) \in Nat
  BY FloorNat DEF Kept
<1>2. i \in 0 .. Len(r) - 1 => i + 1 \in FloorOf(t) + 1 .. Len(r)
  BY <1>1
<1> QED
  BY <1>2, PlainWords DEF Kept, PlainAbove, Array_get

(* ... and a store above it keeps the frame.                               *)
LEMMA KeptPut ==
  ASSUME NEW t \in Threads, NEW r, Kept(t, r), NEW i \in Nat, i >= FloorOf(t), NEW w \in Plain
  PROVE  Kept(t, Array_put(r, i, w)) /\ Height(t, Array_put(r, i, w)) >= Height(t, r)
<1> DEFINE q == Array_put(r, i, w)
<1>1. /\ r \in Seq(Elements) /\ w \in Elements /\ nil \in Elements /\ nil \in Plain
      /\ FloorOf(t) \in Nat /\ Len(r) >= FloorOf(t) /\ Len(r) \in Nat
  BY PlainWords, FloorNat DEF Kept
<1>2. /\ q \in Seq(Elements) /\ Len(q) = IF i < Len(r) THEN Len(r) ELSE i + 1
      /\ \A k \in 1 .. Len(q) : q[k] = IF k = i + 1 THEN w ELSE IF k <= Len(r) THEN r[k] ELSE nil
  BY <1>1, PutWords
<1> HIDE DEF q
<1>3. Len(q) \in Nat /\ Len(q) >= Len(r)
  BY <1>1, <1>2
<1>4. Agree(t.stack, q, FloorOf(t))
  <2>1. ASSUME NEW k \in 1 .. FloorOf(t)
        PROVE  q[k] = t.stack[k]
    <3>1. k \in 1 .. Len(q) /\ k # i + 1 /\ k <= Len(r)
      BY <1>1, <1>3
    <3> QED
      BY <1>2, <3>1 DEF Kept, Agree
  <2> QED
    BY <2>1 DEF Agree
<1>5. PlainAbove(q, FloorOf(t))
  <2>1. ASSUME NEW k \in FloorOf(t) + 1 .. Len(q)
        PROVE  q[k] \in Plain
    <3>1. k \in 1 .. Len(q) /\ (k <= Len(r) => k \in FloorOf(t) + 1 .. Len(r))
      BY <1>1, <1>3
    <3> QED
      BY <1>1, <1>2, <3>1 DEF Kept, PlainAbove
  <2> QED
    BY <2>1 DEF PlainAbove
<1>6. Len(q) >= FloorOf(t) /\ Len(q) - FloorOf(t) >= Len(r) - FloorOf(t)
  BY <1>1, <1>3
<1>7. Kept(t, q) /\ Height(t, q) >= Height(t, r)
  BY <1>2, <1>4, <1>5, <1>6 DEF Kept, Height
<1> QED
  BY <1>7 DEF q

(* A thread whose new stack keeps its frame is sound at every instruction  *)
(* its own leads to.                                                       *)
LEMMA KeptSound ==
  ASSUME NEW im, Verified(im), NEW first, NEW t \in Threads, NEW u \in Threads, NEW height \in Int,
         Sound(im, t, first), Inside(im, t, first), u.rbp = t.rbp,
         Continues(im, t.pc, u.pc, height), Kept(t, u.stack), Height(t, u.stack) >= height
  PROVE  Sound(im, u, first) /\ KeepsFirst(t.stack, u.stack)
<1>1. FloorOf(t) \in Nat /\ u.stack \in Seq(Elements)
  BY FloorNat DEF Threads
<1>2. /\ Len(u.stack) >= FloorOf(t)
      /\ \A k \in 1 .. FloorOf(t) : u.stack[k] = t.stack[k]
      /\ \A k \in FloorOf(t) + 1 .. Len(u.stack) : u.stack[k] \in Plain
  BY DEF Kept, Agree, PlainAbove
<1>3. Len(u.stack) - FloorOf(t) >= Least(im, u.pc)
  <2>1. Least(im, u.pc) <= height /\ Least(im, u.pc) \in Nat
    BY VerifiedCode DEF Continues
  <2> QED
    BY <1>1, <2>1 DEF Height
<1> QED
  BY <1>2, <1>3, WorkSound DEF FloorOf

----------------------------------------------------------------------------
(* Returns. First bodies are entered without a call, the others by one.    *)
Begins(im, first) ==
  BodyAt(im, first) = first /\ KindAt(im, first) \in {"main", "global", "handler"}

(* In the first frame runs the body the thread began in.                   *)
LEMMA FirstFrame ==
  ASSUME NEW im, NEW first, Begins(im, first), NEW t, Inside(im, t, first), t.rbp = 1
  PROVE  KindAt(im, t.pc) = KindAt(im, first)
  BY DEF Begins, Inside, FrameBody, KindAt

(* In any other frame runs the body its call leads to, a function or an    *)
(* advice.                                                                 *)
LEMMA CalledFrame ==
  ASSUME NEW im, Verified(im), NEW first, Begins(im, first), NEW t \in Threads,
         Sound(im, t, first), Inside(im, t, first), t.rbp # 1
  PROVE  LET call == CallOf(t)
             below == BelowOf(t)
         IN
         /\ t.rbp \in Points(t.stack) /\ below \in Points(t.stack) \cup {1} /\ below < t.rbp
         /\ Linked(im, t.stack, t.rbp, below, first)
         /\ call \in Reached(im) /\ OpAt(im, call) = "CALL"
         /\ BodyAt(im, t.pc) = Target(im, call)
         /\ KindAt(im, t.pc) \in {"function", "advice"}
         /\ KindAt(im, Target(im, call)) = KindAt(im, t.pc)
         /\ KindAt(im, call) = "main" =>
              KindAt(im, t.pc) = "advice" /\ KindAt(im, first) = "main"
<1> DEFINE s == t.stack
           call == CallOf(t)
           below == BelowOf(t)
<1>1. Chained(im, t, first)
  BY DEF Sound
<1>2. /\ t.rbp \in Points(s) /\ below \in Points(s) \cup {1} /\ below < t.rbp
      /\ Linked(im, s, t.rbp, below, first)
  BY <1>1 DEF Chained, BelowOf
<1>3. s \in Seq(Elements) /\ t.rbp \in Nat /\ below \in Nat
  BY <1>2 DEF Threads, Points, BelowOf
<1>4. /\ FrameBody(im, s, t.rbp, first) = Target(im, call)
      /\ call \in Reached(im) /\ OpAt(im, call) = "CALL"
      /\ Calls(im, call, {"function", "advice"})
      /\ KindAt(im, call) = "main" => Calls(im, call, {"advice"})
  BY <1>2, <1>3, FrameOfCall DEF CallOf
<1>5. BodyAt(im, t.pc) = Target(im, call)
  BY <1>4 DEF Inside
<1>6. KindAt(im, Target(im, call)) = KindAt(im, t.pc)
  BY <1>4, <1>5 DEF Calls, KindAt
<1>7. KindAt(im, t.pc) \in {"function", "advice"}
  BY <1>4, <1>6 DEF Calls
<1>8. ASSUME KindAt(im, call) = "main"
      PROVE  KindAt(im, t.pc) = "advice" /\ KindAt(im, first) = "main"
  <2>1. KindAt(im, t.pc) = "advice"
    BY <1>4, <1>6, <1>8 DEF Calls
  <2>2. BodyAt(im, call) = FrameBody(im, s, below, first)
    BY <1>2 DEF Linked, CallOf
  <2>3. CASE below = 1
    BY <1>8, <2>1, <2>2, <2>3 DEF FrameBody, KindAt, Begins
  <2>4. CASE below # 1
    <3> DEFINE under == s[below].n
               caller == s[below - 1].n - CALLSIZE
    <3>1. under \in Points(s) \cup {1} /\ Linked(im, s, below, under, first)
      BY <1>1, <1>2, <2>4 DEF Chained
    <3>2. under \in Nat
      BY <1>3, <3>1 DEF Points
    <3>3. /\ FrameBody(im, s, below, first) = Target(im, caller)
          /\ Calls(im, caller, {"function", "advice"})
      BY <1>3, <2>4, <3>1, <3>2, FrameOfCall
    <3>4. KindAt(im, call) \in {"function", "advice"}
      BY <2>2, <3>3 DEF Calls, KindAt
    <3> QED
      BY <1>8, <3>4
  <2> QED
    BY <2>3, <2>4
<1> QED
  BY <1>2, <1>4, <1>5, <1>6, <1>7, <1>8

(* The frame that is looked for from the top is the running one.           *)
LEMMA FrameFound ==
  ASSUME NEW im, NEW first, NEW t \in Threads, Inside(im, t, first),
         t.rbp \in Points(t.stack), NEW frame, Kept(t, frame)
  PROVE  /\ HasBasePoint(frame) /\ BasePoint(frame) = t.rbp /\ frame[t.rbp] = t.stack[t.rbp]
         /\ Below(frame) \in Seq(Elements) /\ Len(Below(frame)) = t.rbp - 1
         /\ Agree(t.stack, Below(frame), t.rbp - 1)
<1>1. /\ FloorOf(t) = t.rbp /\ t.rbp \in Nat \ {0}
      /\ t.stack \in Seq(Elements) /\ t.stack[t.rbp].kind = "bp"
  BY DEF FloorOf, Floor, Points, Threads
<1>2. /\ frame \in Seq(Elements) /\ Len(frame) >= t.rbp
      /\ Agree(t.stack, frame, t.rbp) /\ PlainAbove(frame, t.rbp)
  BY <1>1 DEF Kept
<1>3. t.rbp \in 1 .. t.rbp /\ t.rbp \in DOMAIN frame
  BY <1>1, <1>2
<1>4. frame[t.rbp] = t.stack[t.rbp]
  BY <1>2, <1>3 DEF Agree
<1>5. t.rbp \in Points(frame)
  BY <1>1, <1>3, <1>4 DEF Points
<1>6. \A k \in t.rbp + 1 .. Len(frame) : frame[k].kind # "bp"
  BY <1>2, PlainNoPoints DEF NoPoints
<1>7. HasBasePoint(frame) /\ BasePoint(frame) = t.rbp
  BY <1>2, <1>5, <1>6, TopmostBasePoint
<1>8. Below(frame) = SubSeq(frame, 1, t.rbp - 1) /\ t.rbp - 1 \in 0 .. Len(frame)
  BY <1>1, <1>2, <1>7 DEF Below
<1>9. /\ Below(frame) \in Seq(Elements) /\ Len(Below(frame)) = t.rbp - 1
       /\ \A k \in 1 .. t.rbp - 1 : Below(frame)[k] = frame[k]
  BY <1>2, <1>8, PrefixWords
<1>10. Agree(t.stack, Below(frame), t.rbp - 1)
  <2>1. ASSUME NEW k \in 1 .. t.rbp - 1
        PROVE  Below(frame)[k] = t.stack[k]
    <3>1. k \in 1 .. t.rbp
      BY <1>1
    <3> QED
      BY <1>2, <1>9, <3>1 DEF Agree
  <2> QED
    BY <2>1 DEF Agree
<1> QED
  BY <1>4, <1>7, <1>9, <1>10

(* What lies under a base point: the frame it belongs to, the number of    *)
(* arguments and the way back.                                             *)
LEMMA UnderBasePoint ==
  ASSUME NEW im, Verified(im), NEW first, NEW t \in Threads,
         BelowOf(t) \in Nat, Linked(im, t.stack, t.rbp, BelowOf(t), first),
         im.code[CallOf(t)].a \in Nat,
         NEW caller \in Seq(Elements), Len(caller) = t.rbp - 1,
         Agree(t.stack, caller, t.rbp - 1)
  PROVE  /\ t.rbp - 3 - FloorBelow(t) >= Least(im, CallOf(t)) /\ FloorBelow(t) \in Nat
         /\ Top(caller) = address(Behind(im, CallOf(t)))
         /\ Top(Array_pop(caller, 1)) = address(im.code[CallOf(t)].a)
         /\ Agree(t.stack, caller, FloorBelow(t))
         /\ \A k \in FloorBelow(t) + 1 .. t.rbp - 3 : caller[k] \in Plain
<1> DEFINE call == CallOf(t)
           below == BelowOf(t)
           floor == FloorBelow(t)
           a == im.code[call].a
<1>1. t.stack \in Seq(Elements) /\ t.rbp \in Nat
  BY DEF Threads
<1>2. /\ call \in Reached(im) /\ OpAt(im, call) = "CALL"
      /\ t.stack[t.rbp - 1] = address(call + CALLSIZE) /\ t.stack[t.rbp - 2] = address(a)
      /\ t.rbp - 3 - floor >= Least(im, call)
      /\ \A k \in floor + 1 .. t.rbp - 3 : t.stack[k] \in Plain
  BY DEF Linked, CallOf, FloorBelow
<1>3. t.rbp >= 3 /\ floor \in Nat /\ t.rbp - 3 >= floor
  <2>1. floor \in 0 .. below
    BY <1>1, FloorBound DEF FloorBelow
  <2>2. t.rbp - 3 >= floor /\ t.rbp >= 3
    BY <1>1, LinkBelow DEF FloorBelow
  <2> QED
    BY <2>1, <2>2
<1>4. Behind(im, call) = call + CALLSIZE
  BY <1>2, CallSize DEF OpAt
<1>5. /\ t.rbp - 1 \in 1 .. t.rbp - 1 /\ t.rbp - 2 \in 1 .. t.rbp - 1
      /\ \A k \in floor + 1 .. t.rbp - 3 : k \in 1 .. t.rbp - 1
      /\ \A k \in 1 .. floor : k \in 1 .. t.rbp - 1
  BY <1>1, <1>3
<1>6. caller[t.rbp - 1] = address(call + CALLSIZE) /\ caller[t.rbp - 2] = address(a)
  BY <1>2, <1>5 DEF Agree
<1>7. Top(caller) = address(Behind(im, call))
  BY <1>4, <1>6 DEF Top
<1>8. Top(Array_pop(caller, 1)) = address(a)
  <2> DEFINE q == Array_pop(caller, 1)
  <2>1. 1 \in 0 .. Len(caller)
    BY <1>1, <1>3
  <2>2. Len(q) = Len(caller) - 1 /\ \A k \in 1 .. Len(caller) - 1 : q[k] = caller[k]
    BY <2>1, PopWords
  <2>3. Len(q) = t.rbp - 2 /\ t.rbp - 2 \in 1 .. Len(caller) - 1
    BY <1>1, <1>3, <2>2
  <2> QED
    BY <1>6, <2>2, <2>3 DEF Top
<1>9. Agree(t.stack, caller, floor)
  BY <1>5 DEF Agree
<1>10. \A k \in floor + 1 .. t.rbp - 3 : caller[k] \in Plain
  BY <1>2, <1>5 DEF Agree
<1> QED
  BY <1>2, <1>3, <1>4, <1>7, <1>8, <1>9, <1>10

(* An address is one number, however large.                                *)
LEMMA AddressValue ==
  ASSUME NEW n
  PROVE  _Integer_value(address(n)) = {n}
  BY DEF _Integer_value, address, Value

(* The words of the caller, of which `least' lie above its base point, the  *)
(* number of arguments and the way back; and what a return makes of them.  *)
CallerWords(s, caller, rbp, floor, least) ==
  /\ rbp \in Nat /\ floor \in Nat /\ least \in Nat /\ rbp - 3 - floor >= least
  /\ caller \in Seq(Elements) /\ Len(caller) = rbp - 1 /\ Agree(s, caller, floor)
  /\ \A k \in floor + 1 .. rbp - 3 : caller[k] \in Plain
LeftWords(s, r, floor, height) ==
  /\ r \in Seq(Elements) /\ floor \in Nat /\ Len(r) >= floor /\ Len(r) - floor >= height
  /\ Agree(s, r, floor) /\ PlainAbove(r, floor)

(* The same for any way to look the frame up: where it goes back to.       *)
LEMMA WayBack ==
  ASSUME NEW im, Verified(im), NEW first, Begins(im, first), NEW t \in Threads,
         Sound(im, t, first), Inside(im, t, first), t.rbp # 1,
         NEW frame, Kept(t, frame), NEW caller, caller = Below(frame)
  PROVE  /\ HasBasePoint(frame) /\ frame[BasePoint(frame)].n = BelowOf(t) /\ BelowOf(t) \in Nat
         /\ CallerWords(t.stack, caller, t.rbp, FloorBelow(t), Least(im, CallOf(t)))
         /\ im.code[CallOf(t)].a \in Nat /\ Least(im, CallOf(t)) >= im.code[CallOf(t)].a
         /\ _Integer_value(Top(caller)) = {Behind(im, CallOf(t))}
         /\ Behind(im, CallOf(t)) \in Nat
         /\ Top(Array_pop(caller, 1)) = address(im.code[CallOf(t)].a)
<1> DEFINE s == t.stack
           call == CallOf(t)
           below == BelowOf(t)
<1>1. /\ t.rbp \in Points(s) /\ below \in Points(s) \cup {1}
      /\ Linked(im, s, t.rbp, below, first)
      /\ call \in Reached(im) /\ OpAt(im, call) = "CALL"
  BY CalledFrame
<1>2. t.rbp \in Nat /\ below \in Nat
  BY <1>1 DEF Threads, Points
<1>3. /\ HasBasePoint(frame) /\ BasePoint(frame) = t.rbp /\ frame[t.rbp] = s[t.rbp]
      /\ caller \in Seq(Elements) /\ Len(caller) = t.rbp - 1 /\ Agree(s, caller, t.rbp - 1)
  BY <1>1, FrameFound
<1>4. im.code[call].a \in Nat /\ Least(im, call) >= im.code[call].a
  <2>1. CASE KindAt(im, call) = "main"
    <3>1. im.code[call].a = 0 /\ Least(im, call) = 0
      BY <1>1, <2>1, VerifiedCode DEF MainVerified, OpAt
    <3> QED
      BY <3>1
  <2>2. CASE KindAt(im, call) # "main"
    <3>1. im.code[call].op = "CALL"
      BY <1>1 DEF OpAt
    <3>2. im.code[call].a \in Nat
      BY <1>1, <2>2, <3>1, VerifiedCode DEF SubVerified, OperandsFit
    <3>3. Least(im, call) >= im.code[call].a
      BY <1>1, <2>2, <3>1, BodyVerified
    <3> QED
      BY <3>2, <3>3
  <2> QED
    BY <2>1, <2>2
<1>5. Least(im, call) \in Nat /\ Behind(im, call) \in Nat
  <2>1. call \in Nat /\ Least(im, call) \in Nat
    BY <1>1, VerifiedCode
  <2>2. Behind(im, call) = call + CALLSIZE
    BY <1>1, CallSize DEF OpAt
  <2> QED
    BY <2>1, <2>2 DEF CALLSIZE, INT
<1>6. /\ t.rbp - 3 - FloorBelow(t) >= Least(im, CallOf(t)) /\ FloorBelow(t) \in Nat
      /\ Top(caller) = address(Behind(im, CallOf(t)))
      /\ Top(Array_pop(caller, 1)) = address(im.code[CallOf(t)].a)
      /\ Agree(t.stack, caller, FloorBelow(t))
      /\ \A k \in FloorBelow(t) + 1 .. t.rbp - 3 : caller[k] \in Plain
  BY ONLY <1>1, <1>2, <1>3, <1>4, UnderBasePoint, Verified(im), t \in Threads, Zenon
<1>7. _Integer_value(Top(caller)) = {Behind(im, CallOf(t))}
  BY <1>6, AddressValue
<1>8. frame[BasePoint(frame)].n = below
  BY <1>3 DEF BelowOf
<1> QED
  BY <1>2, <1>3, <1>4, <1>5, <1>6, <1>7, <1>8, Zenon DEF CallerWords

(* What a return leaves of the caller's stack: the arguments, their number *)
(* and the way back go, and a value comes.                                 *)
LEMMA ReturnedStack ==
  ASSUME NEW s, NEW caller, NEW rbp, NEW floor, NEW least,
         CallerWords(s, caller, rbp, floor, least), NEW a \in Nat, least >= a,
         NEW w \in Plain, NEW r, r = Append(Array_pop(caller, 2 + a), w)
  PROVE  LeftWords(s, r, floor, least - a + 1)
<1>0. /\ rbp \in Nat /\ floor \in Nat /\ least \in Nat /\ rbp - 3 - floor >= least
      /\ caller \in Seq(Elements) /\ Len(caller) = rbp - 1 /\ Agree(s, caller, floor)
      /\ \A k \in floor + 1 .. rbp - 3 : caller[k] \in Plain
  BY DEF CallerWords
<1> DEFINE kept == Array_pop(caller, 2 + a)
<1>1. PICK n \in Nat : n = rbp - 3 - a
  BY <1>0
<1>2. /\ 2 + a \in 0 .. Len(caller) /\ Len(caller) - (2 + a) = n
      /\ n >= floor /\ n <= rbp - 3 /\ n - floor >= least - a
  BY <1>0, <1>1
<1>3. kept \in Seq(Elements) /\ Len(kept) = n /\ \A k \in 1 .. n : kept[k] = caller[k]
  BY <1>0, <1>2, PopWords
<1>4. w \in Elements /\ r = Append(kept, w)
  BY PlainWords
<1> HIDE DEF kept
<1>5. r \in Seq(Elements) /\ Len(r) = n + 1 /\ r[n + 1] = w /\ \A k \in 1 .. n : r[k] = caller[k]
  BY ONLY <1>3, <1>4, AppendWords
<1>6. Agree(s, r, floor)
  BY <1>0, <1>2, <1>5 DEF Agree
<1>7. PlainAbove(r, floor)
  <2>1. ASSUME NEW k \in floor + 1 .. n + 1
        PROVE  r[k] \in Plain
    <3>1. k = n + 1 \/ (k \in 1 .. n /\ k \in floor + 1 .. rbp - 3)
      BY <1>0, <1>2
    <3> QED
      BY <1>0, <1>5, <3>1
  <2> QED
    BY <1>5, <2>1 DEF PlainAbove
<1> QED
  BY <1>0, <1>2, <1>5, <1>6, <1>7 DEF LeftWords

(* RET: control goes on behind the call, with the arguments gone and the   *)
(* value in their place.                                                   *)
LEMMA RetSound ==
  ASSUME NEW im, Verified(im), NEW first, Begins(im, first), NEW t \in Threads,
         Sound(im, t, first), Inside(im, t, first), OpAt(im, t.pc) = "RET",
         NEW frame, frame = Array_pop(t.stack, 1), NEW caller, caller = Below(frame),
         NEW to \in _Integer_value(Top(caller)),
         NEW num_arg \in _Integer_value(Top(Array_pop(caller, 1))),
         NEW r, r = Append(Array_pop(caller, 2 + num_arg), Top(t.stack)),
         NEW below, below = frame[BasePoint(frame)].n
  PROVE  /\ to \in Nat /\ below \in Nat /\ r \in Seq(Elements)
         /\ \A u \in Threads : u.pc = to /\ u.rbp = below /\ u.stack = r =>
              Sound(im, u, first) /\ KeepsFirst(t.stack, r)
<1> DEFINE call == CallOf(t)
           floor == FloorBelow(t)
           a == im.code[call].a
           least == Least(im, call)
<1>1. /\ KindAt(im, t.pc) = "function" /\ Least(im, t.pc) >= 1
  <2>1. t.pc \in Reached(im) /\ KindAt(im, t.pc) # "main"
    BY DEF Sound
  <2> QED
    BY <2>1, VerifiedCode, BodyVerified DEF SubVerified, OpAt
<1>2. t.rbp # 1
  BY <1>1, FirstFrame DEF Begins
<1>3. t.rbp \in Points(t.stack) /\ call \in Reached(im) /\ OpAt(im, call) = "CALL"
      /\ KindAt(im, call) # "main"
  BY <1>1, <1>2, CalledFrame
<1>4. Kept(t, frame) /\ Top(t.stack) \in Plain
  <2>1. Kept(t, t.stack) /\ Height(t, t.stack) >= 1
    <3>1. Kept(t, t.stack) /\ Height(t, t.stack) \in Nat /\ Height(t, t.stack) >= Least(im, t.pc)
      BY KeptSame
    <3>2. Least(im, t.pc) \in Nat
      BY VerifiedCode DEF Sound
    <3> QED
      BY <1>1, <3>1, <3>2
  <2> QED
    BY <2>1, KeptTop, KeptPop
<1>5. /\ frame[BasePoint(frame)].n = BelowOf(t) /\ BelowOf(t) \in Nat
      /\ CallerWords(t.stack, caller, t.rbp, floor, least) /\ a \in Nat /\ least >= a
      /\ _Integer_value(Top(caller)) = {Behind(im, call)} /\ Behind(im, call) \in Nat
      /\ Top(Array_pop(caller, 1)) = address(a)
  BY <1>2, <1>4, WayBack, Zenon
<1>6. to = Behind(im, call) /\ num_arg = a /\ below = BelowOf(t)
  BY <1>5, AddressValue
<1>7. Continues(im, call, Behind(im, call), least - a + 1)
  BY <1>3, BodyVerified DEF OpAt
<1> HIDE DEF call, floor, a, least
<1>8. r = Append(Array_pop(caller, 2 + a), Top(t.stack))
  BY <1>6
<1>9. LeftWords(t.stack, r, floor, least - a + 1)
  BY ONLY <1>4, <1>5, <1>8, ReturnedStack, Zenon
<1>10. ASSUME NEW u \in Threads, u.pc = to, u.rbp = below, u.stack = r
       PROVE  Sound(im, u, first) /\ KeepsFirst(t.stack, u.stack)
  <2>1. Least(im, to) <= least - a + 1 /\ Least(im, to) \in Nat
    BY <1>6, <1>7, VerifiedCode DEF Continues
  <2>2. Len(r) - floor >= Least(im, to)
    BY ONLY <1>5, <1>9, <2>1 DEF LeftWords, CallerWords
  <2>3. /\ t.rbp \in Points(t.stack) /\ KindAt(im, CallOf(t)) # "main"
        /\ Continues(im, CallOf(t), u.pc, least - a + 1) /\ u.rbp = BelowOf(t)
        /\ Len(u.stack) >= FloorBelow(t) /\ Len(u.stack) - FloorBelow(t) >= Least(im, u.pc)
        /\ Agree(t.stack, u.stack, FloorBelow(t)) /\ PlainAbove(u.stack, FloorBelow(t))
    BY <1>3, <1>6, <1>7, <1>9, <1>10, <2>2 DEF call, floor, LeftWords
  <2> QED
    BY ONLY <1>2, <2>3, ReturnSound, Verified(im), t \in Threads, u \in Threads,
            Sound(im, t, first), Zenon
<1> QED
  BY <1>5, <1>6, <1>9, <1>10, Zenon DEF LeftWords

(* EOA: the number of arguments, which is 0, is left in the caller's frame *)
(* in the place of a value.                                                *)
LEMMA AdviceStack ==
  ASSUME NEW s, NEW caller, NEW rbp, NEW floor, NEW least,
         CallerWords(s, caller, rbp, floor, least),
         Top(Array_pop(caller, 1)) \in Plain, NEW r, r = Array_pop(caller, 1)
  PROVE  LeftWords(s, r, floor, least + 1)
<1>0. /\ rbp \in Nat /\ floor \in Nat /\ least \in Nat /\ rbp - 3 - floor >= least
      /\ caller \in Seq(Elements) /\ Len(caller) = rbp - 1 /\ Agree(s, caller, floor)
      /\ \A k \in floor + 1 .. rbp - 3 : caller[k] \in Plain
  BY DEF CallerWords
<1>1. 1 \in 0 .. Len(caller) /\ Len(caller) - 1 = rbp - 2
  BY <1>0
<1>2. r \in Seq(Elements) /\ Len(r) = rbp - 2 /\ \A k \in 1 .. rbp - 2 : r[k] = caller[k]
  BY <1>0, <1>1, PopWords
<1>3. Agree(s, r, floor)
  <2>1. \A k \in 1 .. floor : k \in 1 .. rbp - 2
    BY <1>0
  <2> QED
    BY <1>0, <1>2, <2>1 DEF Agree
<1>4. PlainAbove(r, floor)
  <2>1. ASSUME NEW k \in floor + 1 .. rbp - 2
        PROVE  r[k] \in Plain
    <3>1. k = rbp - 2 \/ (k \in 1 .. rbp - 2 /\ k \in floor + 1 .. rbp - 3)
      BY <1>0
    <3> QED
      BY <1>0, <1>2, <3>1 DEF Top
  <2> QED
    BY <1>2, <2>1 DEF PlainAbove
<1> QED
  BY <1>0, <1>2, <1>3, <1>4 DEF LeftWords

(* Behind the call of an advice the thread is inside the caller's frame.   *)
LEMMA AdviceSound ==
  ASSUME NEW im, Verified(im), NEW first, Begins(im, first), NEW t \in Threads,
         Sound(im, t, first), Inside(im, t, first), OpAt(im, t.pc) = "EOA",
         NEW caller, caller = Below(t.stack),
         NEW to \in _Integer_value(Top(caller)),
         NEW r, r = Array_pop(caller, 1),
         NEW below, below = t.stack[BasePoint(t.stack)].n
  PROVE  /\ to \in Nat /\ below \in Nat /\ r \in Seq(Elements)
         /\ KindAt(im, first) # "main" =>
              \A u \in Threads : u.pc = to /\ u.rbp = below /\ u.stack = r =>
                Sound(im, u, first) /\ KeepsFirst(t.stack, r)
<1> DEFINE call == CallOf(t)
           floor == FloorBelow(t)
           a == im.code[call].a
           least == Least(im, call)
<1>1. KindAt(im, t.pc) = "advice"
  BY VerifiedCode DEF Sound, SubVerified, OpAt
<1>2. t.rbp # 1
  BY <1>1, FirstFrame DEF Begins
<1>3. /\ t.rbp \in Points(t.stack) /\ call \in Reached(im) /\ OpAt(im, call) = "CALL"
      /\ KindAt(im, Target(im, call)) = "advice"
      /\ KindAt(im, first) # "main" => KindAt(im, call) # "main"
  BY <1>1, <1>2, CalledFrame
<1>4. a = 0
  <2>1. im.code[call].op = "CALL"
    BY <1>3 DEF OpAt
  <2>2. CASE KindAt(im, call) = "main"
    BY <1>3, <2>1, <2>2, VerifiedCode DEF MainVerified
  <2>3. CASE KindAt(im, call) # "main"
    BY <1>3, <2>1, <2>3, VerifiedCode DEF SubVerified
  <2> QED
    BY <2>2, <2>3
<1>5. Kept(t, t.stack)
  BY KeptSame
<1>6. /\ t.stack[BasePoint(t.stack)].n = BelowOf(t) /\ BelowOf(t) \in Nat
      /\ CallerWords(t.stack, caller, t.rbp, floor, least)
      /\ _Integer_value(Top(caller)) = {Behind(im, call)} /\ Behind(im, call) \in Nat
      /\ Top(Array_pop(caller, 1)) = address(a)
  BY <1>2, <1>5, WayBack, Zenon
<1>7. Top(Array_pop(caller, 1)) \in Plain
  <2>1. 0 \in Ints
    BY WidthAssumption DEF Ints
  <2> QED
    BY <1>4, <1>6, <2>1 DEF address, Value, Plain, Numbers
<1>8. to = Behind(im, call) /\ below = BelowOf(t)
  BY <1>6
<1>9. KindAt(im, call) # "main" => Continues(im, call, Behind(im, call), least + 1)
  <2>1. ASSUME KindAt(im, call) # "main"
        PROVE  Continues(im, call, Behind(im, call), least - a + 1)
    BY <1>3, <2>1, BodyVerified DEF OpAt
  <2>2. least - a + 1 = least + 1
    BY <1>4, <1>6 DEF CallerWords
  <2> QED
    BY <2>1, <2>2
<1> HIDE DEF call, floor, a, least
<1>10. LeftWords(t.stack, r, floor, least + 1)
  BY ONLY <1>6, <1>7, AdviceStack, r = Array_pop(caller, 1), Zenon
<1>11. ASSUME KindAt(im, first) # "main",
              NEW u \in Threads, u.pc = to, u.rbp = below, u.stack = r
       PROVE  Sound(im, u, first) /\ KeepsFirst(t.stack, u.stack)
  <2>1. KindAt(im, call) # "main" /\ Continues(im, call, to, least + 1)
    BY <1>3, <1>8, <1>9, <1>11
  <2>2. Least(im, to) <= least + 1 /\ Least(im, to) \in Nat
    BY <2>1, VerifiedCode DEF Continues
  <2>3. Len(r) - floor >= Least(im, to)
    BY ONLY <1>6, <1>10, <2>2 DEF LeftWords, CallerWords
  <2>4. /\ t.rbp \in Points(t.stack) /\ KindAt(im, CallOf(t)) # "main"
        /\ Continues(im, CallOf(t), u.pc, least + 1) /\ u.rbp = BelowOf(t)
        /\ Len(u.stack) >= FloorBelow(t) /\ Len(u.stack) - FloorBelow(t) >= Least(im, u.pc)
        /\ Agree(t.stack, u.stack, FloorBelow(t)) /\ PlainAbove(u.stack, FloorBelow(t))
    BY <1>3, <1>8, <1>10, <1>11, <2>1, <2>3 DEF call, floor, LeftWords
  <2> QED
    BY ONLY <1>2, <2>4, ReturnSound, Verified(im), t \in Threads, u \in Threads,
            Sound(im, t, first), Zenon
<1> QED
  BY <1>6, <1>8, <1>10, <1>11, Zenon DEF LeftWords

(* MPOP: a handler has no frame but its own, and nothing is left of it.    *)
LEMMA MPopSound ==
  ASSUME NEW im, Verified(im), NEW first, Begins(im, first), NEW t \in Threads,
         Sound(im, t, first), Inside(im, t, first), OpAt(im, t.pc) = "MPOP",
         HasBasePoint(t.stack)
  PROVE  /\ 1 \in Points(t.stack) /\ BasePoint(t.stack) = 1 /\ Below(t.stack) = <<>>
         /\ t.stack[1].n \in Nat /\ KindAt(im, first) = "handler"
         /\ Behind(im, t.pc) \in Nat /\ Behind(im, t.pc) \in Reached(im)
         /\ OpAt(im, Behind(im, t.pc)) = "EOE"
<1> DEFINE s == t.stack
<1>1. KindAt(im, t.pc) = "handler" /\ Behind(im, t.pc) \in Reached(im)
      /\ OpAt(im, Behind(im, t.pc)) = "EOE"
  BY VerifiedCode DEF Sound, SubVerified, OpAt
<1>2. t.rbp = 1
  BY <1>1, CalledFrame
<1>3. KindAt(im, first) = "handler"
  BY <1>1, <1>2, FirstFrame
<1>4. s \in Seq(Elements) /\ DOMAIN s = 1 .. Len(s) /\ Len(s) \in Nat
  BY DEF Threads
<1>5. \A j \in Points(s) : j = 1
  <2>1. \A j \in Points(s) : j <= 1
    BY <1>2 DEF Sound, Chained
  <2> QED
    BY <1>4, <2>1 DEF Points
<1>6. 1 \in Points(s) /\ s[1].kind = "bp"
  BY <1>5 DEF HasBasePoint, Points
<1>7. \A k \in 2 .. Len(s) : s[k].kind # "bp"
  BY <1>4, <1>5 DEF Points
<1>8. BasePoint(s) = 1
  BY <1>4, <1>6, <1>7, TopmostBasePoint
<1>9. Below(s) = <<>>
  <2>1. SubSeq(s, 1, 0) \in Seq(Elements) /\ Len(SubSeq(s, 1, 0)) = 0
    BY <1>4, PrefixWords
  <2>2. Below(s) = SubSeq(s, 1, 0)
    BY <1>8 DEF Below
  <2> QED
    BY <2>1, <2>2
<1>10. s[1].n \in Nat
  BY <1>4, <1>6, PlainWords DEF Points
<1> QED
  BY <1>1, <1>3, <1>6, <1>8, <1>9, <1>10, VerifiedCode

(* Threads that begin: in a body of their own, ...                         *)
LEMMA FreshSound ==
  ASSUME NEW im, Verified(im), NEW first, NEW kind, Starts(im, first, kind), kind # "main",
         NEW t \in Threads, t.pc = first, t.rbp = 1,
         Points(t.stack) \subseteq {1}, PlainAbove(t.stack, Floor(t.stack, 1))
  PROVE  Sound(im, t, first)
<1>1. /\ first \in Reached(im) /\ OpAt(im, first) \notin {"MSUB", "EOE"}
      /\ BodyAt(im, first) = first /\ KindAt(im, first) # "main" /\ Least(im, first) = 0
  BY DEF Starts
<1>2. Chained(im, t, first)
  BY DEF Chained
<1>3. Inside(im, t, first)
  <2>1. FrameBody(im, t.stack, 1, first) = first
    BY DEF FrameBody
  <2>2. Len(t.stack) - Floor(t.stack, 1) >= 0
    <3>1. t.stack \in Seq(Elements) /\ 1 \in Nat
      BY DEF Threads
    <3>2. Floor(t.stack, 1) \in 0 .. 1 /\ Floor(t.stack, 1) <= Len(t.stack)
      BY <3>1, FloorBound
    <3>3. Len(t.stack) \in Nat
      BY <3>1
    <3> QED
      BY <3>2, <3>3
  <2> QED
    BY <1>1, <2>1, <2>2 DEF Inside, PlainAbove
<1> QED
  BY <1>1, <1>2, <1>3 DEF Sound

(* ... or, under the CALL of main_execute, in front of the MSUB of an      *)
(* advice, with the base point of a frame that is the set-up code's.       *)
LEMMA FreshCall ==
  ASSUME NEW im, Verified(im), NEW p, NEW c, SetsUp(im, p, c), OpAt(im, p) = "CALL",
         NEW t \in Threads, t.pc = Target(im, p), t.rbp = 1,
         t.stack = <<new_Basepoint(0), address(im.code[p].a), address(Behind(im, p))>>
  PROVE  Sound(im, t, 0)
<1> DEFINE s == t.stack
<1>1. /\ p \in Reached(im) /\ BodyAt(im, p) = 0 /\ KindAt(im, p) = "main" /\ p \in Nat
  BY VerifiedCode DEF SetsUp, Verified, KindAt
<1>2. /\ Calls(im, p, {"advice"}) /\ im.code[p].a = 0 /\ Least(im, p) = 0
  BY <1>1, VerifiedCode DEF MainVerified, OpAt
<1>3. Behind(im, p) = p + CALLSIZE
  BY CallSize DEF OpAt
<1>4. /\ s \in Seq(Elements) /\ Len(s) = 3 /\ s[1] = new_Basepoint(0)
      /\ s[2] = address(im.code[p].a) /\ s[3] = address(p + CALLSIZE)
  <2>1. s \in Seq(Elements)
    BY DEF Threads
  <2>2. \A x, y, z : LET q == <<x, y, z>> IN Len(q) = 3 /\ q[1] = x /\ q[2] = y /\ q[3] = z
    OBVIOUS
  <2> QED
    BY <1>3, <2>1, <2>2
<1>5. s[1].kind = "bp" /\ s[2].kind = "int" /\ s[3].kind = "int" /\ s[3].n = p + CALLSIZE
  BY <1>4 DEF new_Basepoint, address, Value
<1> HIDE DEF s
<1>6. Points(s) = {1}
  BY <1>4, <1>5 DEF Points
<1>7. Chained(im, t, 0)
  BY <1>6 DEF Chained, s
<1>8. s[4 - 1].n - CALLSIZE = p
  BY <1>1, <1>5 DEF CALLSIZE, INT
<1>9. Floor(s, 1) = 1 /\ FrameBody(im, s, 1, 0) = 0 /\ FrameBody(im, s, 4, 0) = t.pc
  BY <1>6, <1>8 DEF Floor, FrameBody
<1>10. Linked(im, s, 4, 1, 0)
  BY <1>1, <1>2, <1>4, <1>8, <1>9 DEF Linked, OpAt
<1>11. Entering(im, t, 0)
  <2>1. Len(t.stack) + 1 = 4
    BY <1>4 DEF s
  <2> QED
    BY <1>9, <1>10, <2>1 DEF Entering, s
<1>12. t.pc \in Reached(im) /\ OpAt(im, t.pc) = "MSUB" /\ KindAt(im, t.pc) = "advice"
  BY <1>2 DEF Calls
<1> QED
  BY <1>7, <1>11, <1>12 DEF Sound
=============================================================================
