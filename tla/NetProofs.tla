------------------------------- MODULE NetProofs -------------------------------
(***************************************************************************)
(* Proofs about module NetEci.                                             *)
(***************************************************************************)
EXTENDS NetEci, SequenceTheorems, FiniteSetTheorems, WellFoundedInduction, TLAPS

(* A line is its text, which has no end of line in it.                     *)
PlainLines ==
  \A l \in NetLines : /\ l = [name |-> l.name, length |-> l.length]
                       /\ l.length \in Nat \ {0} /\ l.name \notin {"cr", "lf"}

(* The sizes a buffer grows through: a line and its carriage return leave  *)
(* room in the largest.                                                    *)
Buffers(S) ==
  /\ S \subseteq NetFirstBuffer .. NetMaxBuffer /\ NetFirstBuffer \in S
  /\ \A s \in S : IF 2 * s <= NetMaxBuffer THEN 2 * s \in S
                  ELSE \A l \in NetLines : l.length + 1 < s

-----------------------------------------------------------------------------
(* The invariant.                                                          *)

Pieces == {"cr", "lf"} \cup {l.name : l \in NetLines}
Texts == Seq(Pieces)
Replies == [line : Texts, part : Nat, again : Nat]
Connections(S) ==
  [fd : BOOLEAN, listed : BOOLEAN, up : BOOLEAN, wire : Texts, buf : Texts, size : S,
   sent : Seq(NetLines), done : Seq(Texts), got : Seq(Replies)]
Servers ==
  [pc : {"poll", "serve", "execute", "answer", "gone"}, ready : SUBSET NetClients,
   who : NetClients \cup {""}, cmds : Seq(Texts), left : Nat, clean : BOOLEAN,
   exit : BOOLEAN, turns : Nat]
NetTyped(S) ==
  /\ nc \in [NetClients -> Connections(S)] /\ ns \in Servers
  /\ \A c \in NetClients : Len(nc[c].buf) <= nc[c].size

(* The lines that are read and not yet executed, and whether one is being  *)
(* answered.                                                               *)
Unserved(c) ==
  IF ns.who # c THEN <<>> ELSE IF ns.pc = "answer" THEN Tail(ns.cmds) ELSE ns.cmds
Now(c) == ns.who = c /\ ns.pc = "answer"

(* The turns of the server: whoever is removed is cleaned before the poll. *)
Rounds ==
  /\ ns.pc \in {"poll", "serve", "gone"} => ns.cmds = <<>>
  /\ ns.pc \in {"execute", "answer"} => ns.who \in NetClients \ ns.ready
  /\ ns.pc = "answer" => ns.cmds # <<>>
  /\ ns.pc \in {"poll", "gone"} => ns.ready = {}
  /\ \A c \in NetClients :
       /\ c \in ns.ready => nc[c].fd
       /\ nc[c].fd \/ nc[c].up => nc[c].listed
       /\ nc[c].listed /\ ~nc[c].fd => ns.clean /\ ns.pc \notin {"poll", "gone"}

(* What is executed, and what is going to be, is what was sent; a quit is  *)
(* the last.                                                               *)
Taken(cmds, sent, base) ==
  /\ base + Len(cmds) <= Len(sent)
  /\ \A i \in 1 .. Len(cmds) : IsLine(cmds[i]) /\ Line(cmds[i]) = sent[base + i]
Exact(c) ==
  /\ \A i \in 1 .. Len(nc[c].sent) - 1 : nc[c].sent[i].name # Quit
  /\ Taken(nc[c].done, nc[c].sent, 0)
  /\ Taken(Unserved(c), nc[c].sent, Len(nc[c].done))

(* What is executed is answered, the last perhaps not yet, or not yet to   *)
(* its end.                                                                *)
Begun(c) == Now(c) /\ ns.left # NetWrites
Replied(got, done) ==
  /\ Len(got) <= Len(done)
  /\ \A i \in 1 .. Len(got) : got[i].line = done[i]
  /\ \A i \in 1 .. Len(got) - 1 : Whole(got[i])
Answered(c) ==
  LET n == nc[c]
      last == n.got[Len(n.got)]
  IN
  /\ Replied(n.got, n.done)
  /\ Now(c) => n.done # <<>> /\ n.done[Len(n.done)] = Head(ns.cmds)
  /\ Now(c) => ns.left \in 1 .. NetWrites
  /\ Begun(c) => n.fd
  /\ n.fd /\ n.up =>
       Len(n.got) = Len(n.done) - (IF Now(c) /\ ~Begun(c) THEN 1 ELSE 0)
  /\ n.up /\ n.got # <<>> =>
       last.part + last.again = NetWrites - (IF Begun(c) THEN ns.left ELSE 0)

(* Where the lines of a client end in all that it has sent; where in it    *)
(* the server is: behind j lines and what is in the buffer, and t pieces   *)
(* of w, with the rest of w to come.                                       *)
Marks(off, sent) ==
  /\ off \in [0 .. Len(sent) -> Nat] /\ off[0] = 0
  /\ \A i \in 1 .. Len(sent) : off[i] = off[i - 1] + sent[i].length + 2
  /\ \A i \in 0 .. Len(sent) : off[i] <= off[Len(sent)]
Place(off, sent, j, buf, w, t) ==
  /\ Len(w) - t = off[Len(sent)] - (off[j] + Len(buf))
  /\ j = Len(sent) => Len(buf) = 0
  /\ j < Len(sent) =>
       /\ Len(buf) <= sent[j + 1].length + 1
       /\ \A k \in 1 .. Len(buf) : buf[k] = Wire(sent[j + 1])[k]
  /\ \A i \in j + 1 .. Len(sent) : \A k \in 1 .. sent[i].length + 2 :
       off[i - 1] + k > off[j] + Len(buf) =>
         w[off[i - 1] + k - (off[j] + Len(buf)) + t] = Wire(sent[i])[k]
Stream(off, n, j) == Marks(off, n.sent) /\ Place(off, n.sent, j, n.buf, n.wire, 0)
Flow(c) ==
  nc[c].fd => \E off : Stream(off, nc[c], Len(nc[c].done) + Len(Unserved(c)))

Client(c) == Exact(c) /\ Answered(c) /\ Flow(c)
NetInv(S) == NetTyped(S) /\ Rounds /\ \A c \in NetClients : Client(c)

-----------------------------------------------------------------------------
(* Induction, and what a recursive function over an interval is.           *)

\* What holds first and of every next one holds up to any bound.
LEMMA Induct ==
  ASSUME NEW n \in Nat, NEW S, 0 \in S, \A i \in 0..n-1 : i \in S => i + 1 \in S
  PROVE  0..n \subseteq S
<1> DEFINE T == {i \in 0..n : i \notin S}
           F == {0..i : i \in T}
           R == StrictSubsetOrdering(0..n)
<1> SUFFICES ASSUME T # {} PROVE FALSE
  OBVIOUS
<1>1. IsFiniteSet(0..n)
  BY FS_Interval
<1>2. IsWellFoundedOn(R, FiniteSubsetsOf(0..n))
  BY <1>1, FS_StrictSubsetOrderingWellFounded
<1>3. F \subseteq FiniteSubsetsOf(0..n)
  <2>1. ASSUME NEW i \in T PROVE 0..i \in FiniteSubsetsOf(0..n)
    <3>1. 0..i \subseteq 0..n /\ i \in Int
      OBVIOUS
    <3>2. IsFiniteSet(0..i)
      BY <3>1, FS_Interval
    <3> QED BY <3>1, <3>2 DEF FiniteSubsetsOf
  <2> QED BY <2>1
<1>4. F # {}
  OBVIOUS
<1> HIDE DEF R
<1>5. PICK x \in F : \A y \in F : <<y, x>> \notin R
  BY <1>2, <1>3, <1>4, WFMin
<1>6. PICK i \in T : x = 0..i
  BY <1>5
<1>7. i # 0
  BY <1>6
<1>8. i - 1 \in 0..n-1 /\ i - 1 + 1 = i
  BY <1>6, <1>7
<1>9. i - 1 \in T
  BY <1>6, <1>8
<1>10. <<0..(i-1), 0..i>> \in R
  <2>1. 0..(i-1) \subseteq 0..i /\ 0..i \subseteq 0..n /\ i \in 0..i /\ i \notin 0..(i-1)
    BY <1>6, <1>8
  <2>2. 0..(i-1) \in SUBSET (0..n) /\ 0..i \in SUBSET (0..n) /\ 0..(i-1) # 0..i
    BY <2>1
  <2> QED BY <2>1, <2>2 DEF R, StrictSubsetOrdering
<1> QED BY <1>5, <1>6, <1>9, <1>10

\* The states of the parser, from piece to piece.
Parses(h, c, n) ==
  h = [i \in 0..n |-> IF i = 0 THEN [buf |-> nc[c].buf, size |-> nc[c].size, cmds |-> <<>>]
                      ELSE TakePiece(h[i - 1], nc[c].wire[i])]

LEMMA ParsedBy ==
  ASSUME NEW c, NEW n \in Nat
  PROVE  \E h : Parses(h, c, n) /\ Parsed(c, n) = h[n]
<1> DEFINE S == {k \in 0..n : \E h : Parses(h, c, k)}
<1>1. 0 \in S
  <2>1. PICK h : h = [i \in 0..0 |-> [buf |-> nc[c].buf, size |-> nc[c].size, cmds |-> <<>>]]
    OBVIOUS
  <2>2. \A i \in 0..0 : i = 0
    OBVIOUS
  <2>3. Parses(h, c, 0)
    BY <2>1, <2>2 DEF Parses
  <2> QED BY <2>3
<1>2. ASSUME NEW k \in 0..n-1, k \in S PROVE k + 1 \in S
  <2>1. PICK g : Parses(g, c, k)
    BY <1>2
  <2>2. PICK h : h = [i \in 0..k+1 |-> IF i \in 0..k THEN g[i]
                                       ELSE TakePiece(g[k], nc[c].wire[k + 1])]
    OBVIOUS
  <2>3. \A i \in 0..k+1 : i = k + 1 \/ i \in 0..k
    OBVIOUS
  <2>4. \A i \in 0..k : i # 0 => i - 1 \in 0..k
    OBVIOUS
  <2>5. k + 1 \notin 0..k /\ k \in 0..k /\ k + 1 # 0 /\ (k + 1) - 1 = k /\ k \in 0..k+1
    OBVIOUS
  <2>6. \A i \in 0..k : i \in 0..k+1
    OBVIOUS
  <2>7. ASSUME NEW i \in 0..k+1
        PROVE  h[i] = IF i = 0 THEN [buf |-> nc[c].buf, size |-> nc[c].size, cmds |-> <<>>]
                      ELSE TakePiece(h[i - 1], nc[c].wire[i])
    <3>1. CASE i \in 0..k
      <4>1. h[i] = g[i] /\ (i # 0 => h[i - 1] = g[i - 1])
        BY <2>2, <2>4, <2>6, <3>1
      <4>2. g[i] = IF i = 0 THEN [buf |-> nc[c].buf, size |-> nc[c].size, cmds |-> <<>>]
                   ELSE TakePiece(g[i - 1], nc[c].wire[i])
        BY <2>1, <3>1 DEF Parses
      <4> QED BY <4>1, <4>2
    <3>2. CASE i = k + 1
      <4>1. h[i] = TakePiece(g[k], nc[c].wire[k + 1]) /\ h[k] = g[k]
        BY <2>2, <2>5, <3>2
      <4> QED BY <2>5, <3>2, <4>1
    <3> QED BY <2>3, <3>1, <3>2
  <2>8. DOMAIN h = 0..k+1 /\ h = [i \in DOMAIN h |-> h[i]]
    BY <2>2
  <2>9. Parses(h, c, k + 1)
    BY <2>7, <2>8 DEF Parses
  <2>10. k + 1 \in 0..n
    OBVIOUS
  <2> QED BY <2>9, <2>10
<1> HIDE DEF S
<1>3. 0..n \subseteq S
  BY <1>1, <1>2, Induct
<1>4. n \in S
  BY <1>3
<1>5. \E h : Parses(h, c, n)
  BY <1>4 DEF S
<1>6. Parsed(c, n) = (CHOOSE h : Parses(h, c, n))[n]
  BY Zenon DEF Parsed, Parses
<1> QED BY <1>5, <1>6

\* What a recursive function is at one place.
LEMMA ParseStep ==
  ASSUME NEW c, NEW n \in Nat, NEW h, Parses(h, c, n)
  PROVE  /\ h[0] = [buf |-> nc[c].buf, size |-> nc[c].size, cmds |-> <<>>]
         /\ \A i \in 0..n-1 : h[i + 1] = TakePiece(h[i], nc[c].wire[i + 1])
<1>1. 0 \in 0..n
  OBVIOUS
<1>2. \A i \in 0..n-1 : i + 1 \in 0..n /\ i + 1 # 0 /\ (i + 1) - 1 = i
  OBVIOUS
<1> QED BY <1>1, <1>2 DEF Parses

-----------------------------------------------------------------------------
(* The parser.                                                             *)

\* What a line is on the wire.
LEMMA OnWire ==
  ASSUME PlainLines, NEW l \in NetLines
  PROVE  /\ l = [name |-> l.name, length |-> l.length]
         /\ l.length \in Nat /\ l.length >= 1 /\ l.name \in Pieces
         /\ l.name # "cr" /\ l.name # "lf"
         /\ Wire(l) \in Texts /\ Len(Wire(l)) = l.length + 2
         /\ \A k \in 1..l.length : Wire(l)[k] = l.name
         /\ Wire(l)[l.length + 1] = "cr" /\ Wire(l)[l.length + 2] = "lf"
<1>1. l = [name |-> l.name, length |-> l.length]
  BY DEF PlainLines
<1>2. PICK m : m = l.length
  OBVIOUS
<1>3. m \in Nat /\ m >= 1 /\ l.name \in Pieces /\ l.name # "cr" /\ l.name # "lf"
  BY <1>2 DEF PlainLines, Pieces
<1>4. \A i \in 1..m+2 : i <= m \/ i = m + 1 \/ i = m + 2
  BY <1>3
<1>5. PICK w : w = Wire(l)
  OBVIOUS
<1>6. w = [i \in 1..m+2 |-> IF i <= m THEN l.name ELSE IF i = m + 1 THEN "cr" ELSE "lf"]
  BY <1>2, <1>5 DEF Wire
<1>7. w \in [1..m+2 -> Pieces]
  <2>1. "cr" \in Pieces /\ "lf" \in Pieces
    BY DEF Pieces
  <2>2. ASSUME NEW i \in 1..m+2
        PROVE  (IF i <= m THEN l.name ELSE IF i = m + 1 THEN "cr" ELSE "lf") \in Pieces
    BY <1>3, <2>1
  <2> QED BY <1>6, <2>2
<1>8. m + 2 \in Nat /\ w \in Seq(Pieces) /\ Len(w) = m + 2
  BY <1>3, <1>7
<1>9. /\ \A k \in 1..m : k \in 1..m+2 /\ k <= m
      /\ m + 1 \in 1..m+2 /\ ~(m + 1 <= m) /\ m + 2 \in 1..m+2 /\ ~(m + 2 <= m) /\ m + 2 # m + 1
  BY <1>3
<1>10. /\ \A k \in 1..m : w[k] = l.name
       /\ w[m + 1] = "cr" /\ w[m + 2] = "lf"
  BY <1>6, <1>9
<1> QED BY <1>1, <1>2, <1>3, <1>5, <1>8, <1>10 DEF Texts

\* A buffer that is full grows, for a line that leaves room in the largest.
LEMMA FitsIn ==
  ASSUME NEW S, Buffers(S), NetAssumption, NEW l \in NetLines, PlainLines,
         NEW s \in [buf : Texts, size : S, cmds : Seq(Texts)],
         Len(s.buf) <= s.size, Len(s.buf) <= l.length + 1
  PROVE  /\ Fits(s) \in [buf : Texts, size : S, cmds : Seq(Texts)]
         /\ Fits(s).buf = s.buf /\ Fits(s).cmds = s.cmds /\ Len(s.buf) < Fits(s).size
<1>1. s.size \in S /\ s.size \in Nat /\ s.size >= 1 /\ Len(s.buf) \in Nat /\ NetMaxBuffer \in Nat
  <2>1. NetFirstBuffer \in Nat \ {0} /\ NetMaxBuffer \in Nat \ {0}
    BY DEF NetAssumption
  <2>2. s.size \in S /\ s.buf \in Texts
    OBVIOUS
  <2>3. s.size \in NetFirstBuffer .. NetMaxBuffer
    BY <2>2 DEF Buffers
  <2>4. Len(s.buf) \in Nat
    BY <2>2 DEF Texts
  <2> QED BY <2>1, <2>2, <2>3, <2>4
<1>2. l.length \in Nat
  BY OnWire
<1>3. CASE Len(s.buf) < s.size
  <2>1. Fits(s) = s
    BY <1>3 DEF Fits
  <2> QED BY <1>3, <2>1
<1>4. CASE Len(s.buf) = s.size
  <2>1. ~(2 * s.size > NetMaxBuffer)
    BY <1>1, <1>2, <1>4 DEF Buffers
  <2>2. 2 * s.size \in S /\ 2 * s.size <= NetMaxBuffer
    BY <1>1, <2>1 DEF Buffers
  <2>3. ~(Len(s.buf) < s.size)
    BY <1>1, <1>4
  <2>4. Fits(s) = [s EXCEPT !.size = 2 * s.size]
    BY <1>4, <2>1, <2>2, <2>3 DEF Fits
  <2>5. s.size < 2 * s.size
    BY <1>1
  <2> QED BY <1>4, <2>2, <2>4, <2>5
<1> QED BY <1>1, <1>3, <1>4

\* The state of the parser s: it has taken t pieces of w.
Taking(S, sent, off, base, w, s, t) ==
  /\ s \in [buf : Texts, size : S, cmds : Seq(Texts)]
  /\ Taken(s.cmds, sent, base)
  /\ Len(s.buf) <= s.size
  /\ Place(off, sent, base + Len(s.cmds), s.buf, w, t)

\* A piece that is there belongs to the next line.
LEMMA NextPiece ==
  ASSUME PlainLines, NEW sent \in Seq(NetLines), NEW off, Marks(off, sent),
         NEW j \in 0..Len(sent), NEW buf \in Texts, NEW w \in Texts, NEW t \in 0..Len(w)-1,
         Place(off, sent, j, buf, w, t)
  PROVE  /\ j + 1 \in 1..Len(sent) /\ j < Len(sent) /\ Len(buf) + 1 \in 1..sent[j + 1].length + 2
         /\ w[t + 1] = Wire(sent[j + 1])[Len(buf) + 1]
         /\ off[j] \in Nat /\ off[j + 1] = off[j] + sent[j + 1].length + 2
<1>1. /\ Len(sent) \in Nat /\ Len(buf) \in Nat /\ Len(w) \in Nat /\ j \in Nat
      /\ off[j] \in Nat /\ off[Len(sent)] \in Nat /\ t \in Nat /\ t < Len(w)
  <2>1. Len(sent) \in Nat /\ Len(buf) \in Nat /\ Len(w) \in Nat
    BY DEF Texts
  <2>2. j \in Nat /\ t \in Nat /\ t < Len(w) /\ Len(sent) \in 0..Len(sent)
    BY <2>1
  <2>3. off[j] \in Nat /\ off[Len(sent)] \in Nat
    BY <2>2 DEF Marks
  <2> QED BY <2>1, <2>2, <2>3
<1>2. j # Len(sent)
  BY <1>1 DEF Place
<1>3. j + 1 \in 1..Len(sent) /\ j < Len(sent) /\ j + 1 \in j + 1 .. Len(sent) /\ (j + 1) - 1 = j
  BY <1>1, <1>2
<1>4. PICK m : m = sent[j + 1].length
  OBVIOUS
<1>5. m \in Nat /\ Len(buf) <= m + 1
  <2>1. sent[j + 1] \in NetLines
    BY <1>3
  <2> QED BY <1>3, <1>4, <2>1, OnWire DEF Place
<1>6. Len(buf) + 1 \in 1..m+2
  BY <1>1, <1>5
<1>7. off[j + 1] = off[j] + m + 2
  BY <1>3, <1>4 DEF Marks
<1>8. off[j] + (Len(buf) + 1) > off[j] + Len(buf)
  BY <1>1
<1>9. off[j] + (Len(buf) + 1) - (off[j] + Len(buf)) + t = t + 1
  BY <1>1
<1>10. w[off[(j + 1) - 1] + (Len(buf) + 1) - (off[j] + Len(buf)) + t]
         = Wire(sent[j + 1])[Len(buf) + 1]
  BY <1>3, <1>4, <1>6, <1>8 DEF Place
<1> QED BY <1>1, <1>3, <1>4, <1>6, <1>7, <1>9, <1>10

\* Arithmetic of the places.
LEMMA Places ==
  \A o, m, L \in Nat :
    /\ m >= 1 /\ L <= m + 1 =>
         (L # m + 1 => L <= m /\ L + 1 \in 1..m + 1) /\ (L = m + 1 => m <= L)
    /\ L = m + 1 => (o + m + 2) + 0 = o + L + 1
    /\ \A x, t, y \in Nat : x - t = y - (o + L) => x - (t + 1) = y - (o + L + 1)
    /\ \A x, k, t \in Nat :
         /\ x + k > o + L + 1 => x + k > o + L
         /\ x + k - (o + L + 1) + (t + 1) = x + k - (o + L) + t
    /\ \A x, k, y, n, z \in Nat :
         /\ x + m + 2 <= y /\ k <= m + 2 => x + k <= y
         /\ z - n = y - (o + L) /\ x + k <= y /\ x + k > o + L
              => x + k - (o + L) + 0 \in 1..z-n
OBVIOUS

\* Every piece brings the parser one place further.
LEMMA PieceTaken ==
  ASSUME NEW S, Buffers(S), NetAssumption, PlainLines,
         NEW sent \in Seq(NetLines), NEW off, Marks(off, sent), NEW base \in Nat,
         NEW w \in Texts, NEW t \in 0..Len(w)-1, NEW s, Taking(S, sent, off, base, w, s, t)
  PROVE  Taking(S, sent, off, base, w, TakePiece(s, w[t + 1]), t + 1)
<1>1. /\ s \in [buf : Texts, size : S, cmds : Seq(Texts)] /\ Len(s.buf) <= s.size
      /\ Taken(s.cmds, sent, base)
  BY DEF Taking
<1>2. PICK j : j = base + Len(s.cmds)
  OBVIOUS
<1>3. /\ Len(s.cmds) \in Nat /\ j \in 0..Len(sent) /\ Len(s.buf) \in Nat /\ Len(sent) \in Nat
      /\ t \in Nat
  BY <1>1, <1>2 DEF Taken, Texts
<1>4. Place(off, sent, j, s.buf, w, t)
  BY <1>2 DEF Taking
<1>5. s.buf \in Texts
  BY <1>1
<1>6. PICK l : l = sent[j + 1]
  OBVIOUS
<1>7. /\ j + 1 \in 1..Len(sent) /\ j < Len(sent) /\ Len(s.buf) + 1 \in 1..l.length + 2
      /\ w[t + 1] = Wire(l)[Len(s.buf) + 1]
      /\ off[j] \in Nat /\ off[j + 1] = off[j] + l.length + 2
  <2>1. /\ j + 1 \in 1..Len(sent) /\ j < Len(sent)
        /\ Len(s.buf) + 1 \in 1..sent[j + 1].length + 2
        /\ w[t + 1] = Wire(sent[j + 1])[Len(s.buf) + 1]
        /\ off[j] \in Nat /\ off[j + 1] = off[j] + sent[j + 1].length + 2
    <3>1. PICK bf \in Texts : bf = s.buf
      BY <1>5
    <3>2. Place(off, sent, j, bf, w, t)
      BY <1>4, <3>1
    <3>3. /\ j + 1 \in 1..Len(sent) /\ j < Len(sent)
          /\ Len(bf) + 1 \in 1..sent[j + 1].length + 2
          /\ w[t + 1] = Wire(sent[j + 1])[Len(bf) + 1]
          /\ off[j] \in Nat /\ off[j + 1] = off[j] + sent[j + 1].length + 2
      BY <1>3, <3>2, NextPiece
    <3> QED BY <3>1, <3>3
  <2> QED BY <1>6, <2>1
<1>8. l \in NetLines
  BY <1>6, <1>7
<1>9. /\ l = [name |-> l.name, length |-> l.length] /\ l.length \in Nat /\ l.length >= 1
      /\ l.name \in Pieces /\ l.name # "cr" /\ l.name # "lf"
      /\ \A k \in 1..l.length : Wire(l)[k] = l.name
      /\ Wire(l)[l.length + 1] = "cr" /\ Wire(l)[l.length + 2] = "lf"
  BY <1>8, OnWire
<1>10. /\ Len(s.buf) <= l.length + 1
       /\ \A k \in 1..Len(s.buf) : s.buf[k] = Wire(l)[k]
  BY <1>4, <1>6, <1>7 DEF Place
<1>11. PICK r : r = Fits(s)
  OBVIOUS
<1>12. /\ r \in [buf : Texts, size : S, cmds : Seq(Texts)]
       /\ r.buf = s.buf /\ r.cmds = s.cmds /\ Len(s.buf) < r.size
  <2>1. /\ Fits(s) \in [buf : Texts, size : S, cmds : Seq(Texts)]
        /\ Fits(s).buf = s.buf /\ Fits(s).cmds = s.cmds /\ Len(s.buf) < Fits(s).size
    BY <1>1, <1>8, <1>10, FitsIn
  <2> QED BY <1>11, <2>1
<1>13. PICK q : q = TakePiece(s, w[t + 1])
  OBVIOUS
<1>14. PICK L : L = Len(s.buf)
  OBVIOUS
<1>15. L \in Nat /\ Len(sent) \in Nat /\ r.size \in Nat
  <2>1. r.size \in NetFirstBuffer .. NetMaxBuffer
    BY <1>12 DEF Buffers
  <2>2. NetFirstBuffer \in Nat /\ NetMaxBuffer \in Nat
    BY DEF NetAssumption
  <2> QED BY <1>3, <1>14, <2>1, <2>2
<1>16. PICK b : b = w[t + 1]
  OBVIOUS
<1>17. /\ l.length \in Nat /\ l.length >= 1 /\ off[j] \in Nat /\ L \in Nat /\ L <= l.length + 1
  BY <1>7, <1>9, <1>10, <1>14, <1>15
<1>18. j \in Nat /\ t \in Nat /\ j < Len(sent) /\ Len(sent) \in Nat
  BY <1>3, <1>7, <1>15
<1>19. off[j + 1] = off[j] + l.length + 2 /\ b = Wire(l)[L + 1]
  BY <1>7, <1>14, <1>16
<1>20. PICK o \in Nat : o = off[j]
  BY <1>17
<1>21. PICK m \in Nat : m = l.length
  BY <1>17
<1>22. \* What is behind the piece is still to come.
       \A i \in j + 1 .. Len(sent) : \A k \in 1 .. sent[i].length + 2 :
         off[i - 1] + k > o + L + 1 =>
           w[off[i - 1] + k - (o + L + 1) + (t + 1)] = Wire(sent[i])[k]
  <2> SUFFICES ASSUME NEW i \in j + 1 .. Len(sent), NEW k \in 1 .. sent[i].length + 2,
                      off[i - 1] + k > o + L + 1
               PROVE  w[off[i - 1] + k - (o + L + 1) + (t + 1)] = Wire(sent[i])[k]
    OBVIOUS
  <2>1. i \in Nat /\ i \in 1..Len(sent) /\ i - 1 \in 0..Len(sent)
    BY <1>18
  <2>2. sent[i].length \in Nat
    BY <2>1, OnWire
  <2>3. off[i - 1] \in Nat /\ k \in Nat
    BY <2>1, <2>2 DEF Marks
  <2>4. /\ off[i - 1] + k > o + L
        /\ off[i - 1] + k - (o + L + 1) + (t + 1) = off[i - 1] + k - (o + L) + t
    <3>1. PICK x \in Nat, z \in Nat : x = off[i - 1] /\ z = k
      BY <2>3
    <3>2. L \in Nat /\ t \in Nat
      BY <1>17, <1>18
    <3>3. /\ x + z > o + L + 1 => x + z > o + L
          /\ x + z - (o + L + 1) + (t + 1) = x + z - (o + L) + t
      BY <3>2, Places
    <3> QED BY <3>1, <3>3
  <2>5. w[off[i - 1] + k - (o + L) + t] = Wire(sent[i])[k]
    BY <1>4, <1>14, <1>20, <2>4 DEF Place
  <2> QED BY <2>4, <2>5
<1>23. Len(w) - (t + 1) = off[Len(sent)] - (o + L + 1)
  <2>1. Len(w) - t = off[Len(sent)] - (o + L)
    BY <1>4, <1>14, <1>20 DEF Place
  <2>2. off[Len(sent)] \in Nat /\ Len(w) \in Nat
    <3>1. Len(sent) \in 0..Len(sent)
      BY <1>18
    <3> QED BY <3>1 DEF Marks, Texts
  <2>3. PICK x \in Nat, y \in Nat : x = Len(w) /\ y = off[Len(sent)]
    BY <2>2
  <2>4. L \in Nat /\ t \in Nat
    BY <1>17, <1>18
  <2>5. x - t = y - (o + L)
    BY <2>1, <2>3
  <2>6. x - (t + 1) = y - (o + L + 1)
    BY <2>4, <2>5, Places
  <2> QED BY <2>3, <2>6
<1>24. CASE L = l.length + 1
  <2>1. L \in 1..Len(s.buf) /\ s.buf[L] = "cr" /\ b = "lf" /\ L > 0
    <3>1. L \in 1..L /\ L > 0 /\ L + 1 = l.length + 2
      BY <1>24, <1>17, SMTT(30)
    <3>2. b = "lf"
      BY <1>9, <1>19, <3>1
    <3>3. s.buf[L] = Wire(l)[l.length + 1]
      BY <1>10, <1>14, <1>24, <3>1
    <3> QED BY <1>9, <1>14, <3>1, <3>2, <3>3
  <2>2. Ends(r.buf)
    BY <1>12, <1>14, <2>1 DEF Ends
  <2>3. PICK x : x = SubSeq(r.buf, 1, Len(r.buf) - 1)
    OBVIOUS
  <2>4. q = [r EXCEPT !.cmds = Append(r.cmds, x), !.buf = <<>>]
    BY <1>11, <1>13, <1>16, <2>1, <2>2, <2>3 DEF TakePiece
  <2>5. x \in Texts /\ Len(x) = l.length /\ \A k \in 1..l.length : x[k] = l.name
    <3>1. x = SubSeq(s.buf, 1, l.length)
      <4>1. L - 1 = l.length
        BY <1>24, <1>17, SMTT(30)
      <4> QED BY <1>12, <1>14, <2>3, <4>1
    <3>2. 1 \in 1..Len(s.buf)+1 /\ l.length \in 0..Len(s.buf)
      BY <1>9, <1>14, <1>24
    <3>3. /\ x \in Seq(Pieces) /\ Len(x) = l.length
          /\ \A k \in 1..l.length : x[k] = s.buf[k]
      <4>1. PICK bf \in Seq(Pieces) : bf = s.buf
        BY <1>5 DEF Texts
      <4>2. \A k \in 1..m : k + 1 - 1 = k /\ m - 1 + 1 = m
        OBVIOUS
      <4>3. m <= Len(bf) /\ m >= 1
        <5>1. m >= 1 /\ Len(bf) = m + 1
          BY <1>14, <1>24, <1>17, <1>21, <4>1
        <5> QED BY <5>1
      <4>4. /\ SubSeq(bf, 1, m) \in Seq(Pieces) /\ Len(SubSeq(bf, 1, m)) = m
            /\ \A k \in 1..m : SubSeq(bf, 1, m)[k] = bf[k]
        BY <4>1, <4>3, SMTT(30)
      <4> QED BY <1>21, <3>1, <4>1, <4>4
    <3>4. \A k \in 1..l.length : k \in 1..Len(s.buf)
      BY <1>9, <1>14, <1>24
    <3> QED BY <1>9, <1>10, <3>3, <3>4 DEF Texts
  <2>6. IsLine(x) /\ Line(x) = l
    <3>1. x # <<>> /\ DOMAIN x = 1..l.length /\ 1 \in 1..l.length
      BY <1>9, <2>5 DEF Texts
    <3> QED BY <1>9, <2>5, <3>1 DEF IsLine, Line
  <2>7. PICK cs : cs = Append(s.cmds, x)
    OBVIOUS
  <2>8. /\ cs \in Seq(Texts) /\ Len(cs) = Len(s.cmds) + 1 /\ cs[Len(s.cmds) + 1] = x
        /\ \A i \in 1..Len(s.cmds) : cs[i] = s.cmds[i]
    BY <1>1, <2>5, <2>7
  <2>9. q.cmds = cs /\ q.buf = <<>> /\ q.size = r.size
        /\ q \in [buf : Texts, size : S, cmds : Seq(Texts)]
    <3>1. <<>> \in Texts /\ r.cmds = s.cmds
      BY <1>12 DEF Texts
    <3> QED BY <1>12, <2>4, <2>7, <2>8, <3>1
  <2>10. base + Len(cs) = j + 1
    BY <1>2, <1>3, <2>8
  <2>11. Taken(cs, sent, base)
    <3>1. \A i \in 1..Len(cs) : i \in 1..Len(s.cmds) \/ i = Len(s.cmds) + 1
      BY <1>3, <2>8, SMTT(30)
    <3>2. base + (Len(s.cmds) + 1) = j + 1 /\ base + Len(cs) <= Len(sent)
      BY <1>2, <1>3, <1>7, <2>10
    <3> QED BY <1>1, <1>6, <2>6, <2>8, <3>1, <3>2 DEF Taken
  <2>12. off[j + 1] + 0 = o + L + 1
    <3>1. L = m + 1 /\ off[j + 1] = o + m + 2
      BY <1>24, <1>19, <1>20, <1>21
    <3>2. PICK e : e = off[j + 1]
      OBVIOUS
    <3>3. L = m + 1 /\ e = o + m + 2 /\ o \in Nat /\ m \in Nat
      BY <3>1, <3>2
    <3>4. e + 0 = o + L + 1
      BY ONLY <3>3
    <3> QED BY <3>2, <3>4
  <2>13. Place(off, sent, j + 1, <<>>, w, t + 1)
    <3>1. Len(<<>>) = 0
      OBVIOUS
    <3>2. Len(w) - (t + 1) = off[Len(sent)] - (off[j + 1] + 0)
      BY <1>23, <2>12
    <3>3. \A i \in (j + 1) + 1 .. Len(sent) : i \in j + 1 .. Len(sent)
      BY <1>3
    <3>4. \A i \in (j + 1) + 1 .. Len(sent) : \A k \in 1 .. sent[i].length + 2 :
            off[i - 1] + k > off[j + 1] + 0 =>
              w[off[i - 1] + k - (off[j + 1] + 0) + (t + 1)] = Wire(sent[i])[k]
      BY <1>22, <2>12, <3>3
    <3>5. j + 1 < Len(sent) => 0 <= sent[(j + 1) + 1].length + 1
      <4>1. ASSUME j + 1 < Len(sent) PROVE 0 <= sent[(j + 1) + 1].length + 1
        <5>1. (j + 1) + 1 \in 1..Len(sent)
          BY <1>3, <4>1
        <5>2. sent[(j + 1) + 1].length \in Nat
          BY <5>1, OnWire
        <5> QED BY <5>2
      <4> QED BY <4>1
    <3> QED BY <3>1, <3>2, <3>4, <3>5 DEF Place
  <2>14. Len(q.buf) <= q.size
    BY <1>15, <2>9
  <2> QED BY <1>13, <1>16, <2>9, <2>10, <2>11, <2>13, <2>14 DEF Taking
<1>25. CASE L # l.length + 1
  <2>1. L <= l.length /\ L + 1 \in 1..l.length + 1
    BY <1>25, <1>17, Places
  <2>2. b \in Pieces /\ b # "lf"
    <3>1. L + 1 \in 1..l.length \/ L + 1 = l.length + 1
      BY <1>17, <2>1, SMTT(30)
    <3>2. Wire(l)[L + 1] \in {l.name, "cr"}
      BY <1>9, <3>1
    <3> QED BY <1>9, <1>19, <3>2 DEF Pieces
  <2>3. PICK nb : nb = Append(s.buf, b)
    OBVIOUS
  <2>4. /\ nb \in Texts /\ Len(nb) = L + 1 /\ nb[L + 1] = b
        /\ \A i \in 1..L : nb[i] = s.buf[i]
    BY <1>5, <1>14, <2>2, <2>3 DEF Texts
  <2>5. q = [r EXCEPT !.buf = nb]
    BY <1>11, <1>12, <1>13, <1>16, <2>2, <2>3 DEF TakePiece
  <2>6. /\ q \in [buf : Texts, size : S, cmds : Seq(Texts)]
        /\ q.buf = nb /\ q.cmds = s.cmds /\ q.size = r.size
    BY <1>12, <2>4, <2>5
  <2>7. Len(q.buf) <= q.size
    BY <1>12, <1>14, <1>15, <2>4, <2>6, SMTT(30)
  <2>8. Place(off, sent, j, nb, w, t + 1)
    <3>1. o + Len(nb) = o + L + 1
      BY <1>17, <2>4
    <3>2. Len(nb) <= l.length + 1
      BY <1>9, <1>15, <2>1, <2>4
    <3>3. \A k \in 1..Len(nb) : nb[k] = Wire(l)[k]
      <4>1. \A k \in 1..L + 1 : k \in 1..L \/ k = L + 1
        BY <1>15
      <4> QED BY <1>7, <1>10, <1>14, <1>16, <2>4, <4>1
    <3>4. \A i \in j + 1 .. Len(sent) : \A k \in 1 .. sent[i].length + 2 :
            off[i - 1] + k > o + Len(nb) =>
              w[off[i - 1] + k - (o + Len(nb)) + (t + 1)] = Wire(sent[i])[k]
      BY <1>22, <3>1
    <3>5. Len(w) - (t + 1) = off[Len(sent)] - (o + Len(nb))
      BY <1>23, <3>1
    <3>6. j # Len(sent)
      BY <1>7
    <3> QED BY <1>6, <1>20, <3>2, <3>3, <3>4, <3>5, <3>6 DEF Place
  <2> QED BY <1>1, <1>2, <1>13, <1>16, <2>6, <2>7, <2>8 DEF Taking
<1> QED BY <1>24, <1>25

\* What one read returns is parsed, and the rest of the stream is as it was.
LEMMA ReadWhole ==
  ASSUME NEW S, Buffers(S), NetAssumption, PlainLines,
         NEW c, nc[c] \in Connections(S), Len(nc[c].buf) <= nc[c].size,
         NEW off, NEW base \in 0..Len(nc[c].sent), Stream(off, nc[c], base),
         NEW n \in 1..Len(nc[c].wire), NEW p, p = Parsed(c, n),
         NEW v, v = SubSeq(nc[c].wire, n + 1, Len(nc[c].wire))
  PROVE  /\ p \in [buf : Texts, size : S, cmds : Seq(Texts)]
         /\ Taken(p.cmds, nc[c].sent, base) /\ Len(p.buf) <= p.size
         /\ v \in Texts /\ Place(off, nc[c].sent, base + Len(p.cmds), p.buf, v, 0)
<1>1. PICK w, sent : w = nc[c].wire /\ sent = nc[c].sent
  OBVIOUS
<1>2. w \in Texts /\ sent \in Seq(NetLines) /\ Marks(off, sent) /\ base \in Nat
      /\ n \in Nat /\ n >= 1 /\ Len(w) \in Nat /\ n <= Len(w)
  <2>1. w \in Texts /\ sent \in Seq(NetLines) /\ Marks(off, sent)
    BY <1>1 DEF Connections, Stream
  <2>2. Len(w) \in Nat /\ Len(sent) \in Nat
    BY <2>1 DEF Texts
  <2> QED BY <1>1, <2>1, <2>2
<1>3. PICK h : Parses(h, c, n) /\ p = h[n]
  BY ParsedBy
<1>4. /\ h[0] = [buf |-> nc[c].buf, size |-> nc[c].size, cmds |-> <<>>]
      /\ \A i \in 0..n-1 : h[i + 1] = TakePiece(h[i], w[i + 1])
  BY <1>1, <1>3, ParseStep
<1> DEFINE T == {i \in 0..n : Taking(S, sent, off, base, w, h[i], i)}
<1>5. 0 \in T
  <2>1. /\ h[0].buf = nc[c].buf /\ h[0].size = nc[c].size /\ h[0].cmds = <<>>
        /\ h[0] \in [buf : Texts, size : S, cmds : Seq(Texts)]
    BY <1>4 DEF Connections
  <2>2. Taken(h[0].cmds, sent, base)
    BY <1>1, <1>2, <2>1 DEF Taken
  <2>3. base + Len(h[0].cmds) = base
    BY <1>2, <2>1
  <2>4. Place(off, sent, base, h[0].buf, w, 0)
    BY <1>1, <2>1 DEF Stream
  <2> QED BY <2>1, <2>2, <2>3, <2>4 DEF Taking
<1>6. ASSUME NEW i \in 0..n-1, i \in T PROVE i + 1 \in T
  <2>1. i \in 0..Len(w)-1 /\ i + 1 \in 0..n
    BY <1>2, SMTT(30)
  <2>2. PICK s : s = h[i]
    OBVIOUS
  <2>3. Taking(S, sent, off, base, w, s, i)
    BY <1>6, <2>2
  <2>4. Taking(S, sent, off, base, w, TakePiece(s, w[i + 1]), i + 1)
    BY <1>2, <2>1, <2>3, PieceTaken
  <2> QED BY <1>4, <2>1, <2>2, <2>4
<1> HIDE DEF T
<1>7. 0..n \subseteq T
  BY <1>2, <1>5, <1>6, Induct
<1>8. n \in T
  BY <1>7
<1>9. Taking(S, sent, off, base, w, p, n)
  BY <1>3, <1>8 DEF T
<1>10. /\ v \in Texts /\ Len(v) = Len(w) - n
       /\ \A x \in 1..Len(w)-n : v[x] = w[x + n]
  <2>1. PICK ww \in Seq(Pieces) : ww = w
    BY <1>2 DEF Texts
  <2>2. n \in Nat /\ n <= Len(ww) /\ n + 1 \in 1..Len(ww)+1 /\ Len(ww) \in n..Len(ww)
    BY <1>1, <2>1
  <2>3. /\ SubSeq(ww, n + 1, Len(ww)) \in Seq(Pieces)
        /\ Len(SubSeq(ww, n + 1, Len(ww))) = Len(ww) - n
        /\ \A x \in 1..Len(ww)-n : SubSeq(ww, n + 1, Len(ww))[x] = ww[x + n]
    BY <2>2
  <2> QED BY <1>1, <2>1, <2>3 DEF Texts
<1>11. PICK j : j = base + Len(p.cmds)
  OBVIOUS
<1>12. Place(off, sent, j, p.buf, w, n) /\ j \in 0..Len(sent) /\ p.buf \in Texts
  <2>1. Len(p.cmds) \in Nat /\ p.buf \in Texts
    BY <1>9 DEF Taking
  <2>2. base + Len(p.cmds) <= Len(sent)
    BY <1>9 DEF Taking, Taken
  <2> QED BY <1>2, <1>9, <1>11, <2>1, <2>2 DEF Taking
<1>13. Place(off, sent, j, p.buf, v, 0)
  <2>1. PICK o \in Nat, L \in Nat, z \in Nat, y \in Nat :
          o = off[j] /\ L = Len(p.buf) /\ z = Len(w) /\ y = off[Len(sent)]
    <3>1. Len(sent) \in 0..Len(sent)
      BY <1>2
    <3>2. off[j] \in Nat /\ off[Len(sent)] \in Nat
      BY <1>2, <1>12, <3>1 DEF Marks
    <3>3. Len(p.buf) \in Nat
      BY <1>12 DEF Texts
    <3> QED BY <1>2, <3>2, <3>3
  <2>2. z - n = y - (o + L) /\ n <= z
    BY <1>1, <1>12, <2>1 DEF Place
  <2>3. Len(v) - 0 = y - (o + L)
    <3>1. Len(v) = z - n
      BY <1>10, <2>1
    <3>2. z - n \in Int /\ z - n - 0 = z - n
      BY <1>2, SMTT(30)
    <3> QED BY <2>2, <3>1, <3>2
  <2>4. ASSUME NEW i \in j + 1 .. Len(sent), NEW k \in 1 .. sent[i].length + 2,
               off[i - 1] + k > o + L
        PROVE  v[off[i - 1] + k - (o + L) + 0] = Wire(sent[i])[k]
    <3>1. i \in 1..Len(sent) /\ i - 1 \in 0..Len(sent) /\ i \in 0..Len(sent)
      BY <1>12
    <3>2. sent[i].length \in Nat
      BY <1>2, <3>1, OnWire, SMTT(30)
    <3>3. PICK x \in Nat, kk \in Nat : x = off[i - 1] /\ kk = k
      BY <1>2, <3>1, <3>2 DEF Marks
    <3>4. x + sent[i].length + 2 <= y
      BY <1>2, <2>1, <3>1, <3>3 DEF Marks
    <3>5. kk <= sent[i].length + 2
      BY <3>2, <3>3
    <3>6. PICK m \in Nat : m = sent[i].length
      BY <3>2
    <3>7. x + m + 2 <= y
      BY <3>4, <3>6
    <3>8. kk <= m + 2 /\ L \in Nat /\ o \in Nat
      BY <3>5, <3>6
    <3>9. x + kk <= y
      BY <3>7, <3>8, Places
    <3>10. x + kk > o + L
      BY <2>4, <3>3
    <3>11. x + kk - (o + L) + 0 \in 1..z-n
      BY <1>2, <2>2, <3>9, <3>10, Places
    <3>12. v[x + kk - (o + L) + 0] = w[x + kk - (o + L) + n]
      <4>1. x + kk - (o + L) + 0 + n = x + kk - (o + L) + n
        OBVIOUS
      <4> QED BY <1>10, <2>1, <3>11, <4>1
    <3>13. w[x + kk - (o + L) + n] = Wire(sent[i])[k]
      BY <1>12, <2>1, <2>4, <3>3 DEF Place
    <3> QED BY <3>3, <3>12, <3>13
  <2> QED BY <1>12, <2>1, <2>3, <2>4 DEF Place
<1> QED BY <1>1, <1>9, <1>10, <1>11, <1>13 DEF Taking

-----------------------------------------------------------------------------
(* The steps.                                                              *)

\* A client whose connection and lines are as they were.
LEMMA ClientSame ==
  ASSUME NEW d, Client(d), nc'[d] = nc[d], Unserved(d)' = Unserved(d), (Now(d)' <=> Now(d)),
         Now(d) => Head(ns'.cmds) = Head(ns.cmds) /\ ns'.left = ns.left
  PROVE  Client(d)'
<1>1. Exact(d)'
  BY DEF Client, Exact
<1>2. Answered(d)'
  <2>1. Begun(d)' <=> Begun(d)
    BY DEF Begun
  <2>2. Now(d) => ns'.left = ns.left /\ Head(ns'.cmds) = Head(ns.cmds)
    OBVIOUS
  <2>3. Begun(d) => Now(d)
    BY DEF Begun
  <2> QED BY <2>1, <2>2, <2>3 DEF Client, Answered
<1>3. Flow(d)'
  BY DEF Client, Flow
<1> QED BY <1>1, <1>2, <1>3 DEF Client

\* What is answered stays so while nothing is executed.
LEMMA AnsweredKept ==
  ASSUME NEW c, Answered(c), ~Now(c), ~Now(c)', nc'[c].got = nc[c].got,
         nc'[c].done = nc[c].done, nc'[c].fd => nc[c].fd, nc'[c].up => nc[c].up
  PROVE  Answered(c)'
<1>1. ~Begun(c) /\ ~Begun(c)'
  BY DEF Begun
<1> QED BY <1>1 DEF Answered

\* One connection is changed.
LEMMA OneChanged ==
  ASSUME NEW S, nc \in [NetClients -> Connections(S)], NEW c \in NetClients,
         NEW n \in Connections(S), nc' = [nc EXCEPT ![c] = n]
  PROVE  /\ nc' \in [NetClients -> Connections(S)]
         /\ nc'[c] = n /\ \A d \in NetClients : d # c => nc'[d] = nc[d]
OBVIOUS

\* Nothing changes that a client sees.
LEMMA NoneChanged ==
  ASSUME NEW S, NetInv(S), nc' = nc, ns' \in Servers, Rounds',
         \A d \in NetClients :
           /\ Unserved(d)' = Unserved(d) /\ (Now(d)' <=> Now(d))
           /\ Now(d) => Head(ns'.cmds) = Head(ns.cmds) /\ ns'.left = ns.left
  PROVE  NetInv(S)'
<1>1. NetTyped(S)'
  BY DEF NetInv, NetTyped
<1>2. ASSUME NEW d \in NetClients PROVE Client(d)'
  BY ClientSame DEF NetInv
<1> QED BY <1>1, <1>2 DEF NetInv

\* The server is asked to leave.
LEMMA NetExitKeeps ==
  ASSUME NEW S, NetInv(S), NetExit
  PROVE  NetInv(S)'
<1>1. ns \in Servers /\ nc' = nc /\ ns' = [ns EXCEPT !.exit = TRUE]
  BY DEF NetInv, NetTyped, NetExit
<1>2. /\ ns'.pc = ns.pc /\ ns'.ready = ns.ready /\ ns'.who = ns.who /\ ns'.cmds = ns.cmds
      /\ ns'.left = ns.left /\ ns'.clean = ns.clean /\ ns' \in Servers
  BY <1>1 DEF Servers
<1>3. Rounds'
  BY <1>1, <1>2 DEF NetInv, Rounds
<1>4. ASSUME NEW d \in NetClients
      PROVE  Unserved(d)' = Unserved(d) /\ (Now(d)' <=> Now(d))
  BY <1>2 DEF Unserved, Now
<1> QED BY <1>1, <1>2, <1>3, <1>4, NoneChanged

\* The server waits for events, or leaves.
LEMMA PollNetKeeps ==
  ASSUME NEW S, NetInv(S), Poll
  PROVE  NetInv(S)'
<1>1. ns \in Servers /\ nc' = nc /\ ns.pc = "poll" /\ ns.cmds = <<>>
  BY DEF NetInv, NetTyped, Poll, Rounds
<1>2. \A d \in NetClients : Unserved(d) = <<>> /\ ~Now(d)
  BY <1>1 DEF Unserved, Now
<1>3. CASE ns' = [ns EXCEPT !.pc = "gone"]
  <2>1. /\ ns'.pc = "gone" /\ ns'.ready = ns.ready /\ ns'.who = ns.who /\ ns'.cmds = ns.cmds
        /\ ns'.left = ns.left /\ ns'.clean = ns.clean /\ ns' \in Servers
    BY <1>1, <1>3 DEF Servers
  <2>2. Rounds'
    BY <1>1, <2>1 DEF NetInv, Rounds
  <2>3. \A d \in NetClients : Unserved(d)' = <<>> /\ ~Now(d)'
    BY <1>1, <2>1 DEF Unserved, Now
  <2>4. \A d \in NetClients : Unserved(d)' = Unserved(d) /\ (Now(d)' <=> Now(d)) /\ ~Now(d)
    BY <1>2, <2>3
  <2> QED BY <1>1, <2>1, <2>2, <2>4, NoneChanged
<1>4. CASE ns' = [ns EXCEPT !.pc = "serve",
                           !.ready = {c \in NetClients :
                              nc[c].listed /\ (nc[c].wire # <<>> \/ ~nc[c].up)}]
  <2>1. PICK r : r = {c \in NetClients : nc[c].listed /\ (nc[c].wire # <<>> \/ ~nc[c].up)}
    OBVIOUS
  <2>2. r \in SUBSET NetClients /\ \A d \in r : nc[d].listed
    BY <2>1
  <2>3. ns' = [ns EXCEPT !.pc = "serve", !.ready = r]
    BY <1>4, <2>1
  <2>4. /\ ns'.pc = "serve" /\ ns'.ready = r /\ ns'.who = ns.who /\ ns'.cmds = ns.cmds
        /\ ns'.left = ns.left /\ ns'.clean = ns.clean /\ ns' \in Servers
    BY <1>1, <2>2, <2>3 DEF Servers
  <2>5. Rounds'
    BY <1>1, <2>2, <2>4 DEF NetInv, Rounds
  <2>6. \A d \in NetClients : Unserved(d)' = <<>> /\ ~Now(d)'
    BY <1>1, <2>4 DEF Unserved, Now
  <2>7. \A d \in NetClients : Unserved(d)' = Unserved(d) /\ (Now(d)' <=> Now(d)) /\ ~Now(d)
    BY <1>2, <2>6
  <2> QED BY <1>1, <2>4, <2>5, <2>7, NoneChanged
<1> QED BY <1>3, <1>4 DEF Poll

\* All lines of a client are served.
LEMMA ServedKeeps ==
  ASSUME NEW S, NetInv(S), Served
  PROVE  NetInv(S)'
<1>1. /\ ns \in Servers /\ nc' = nc /\ ns' = [ns EXCEPT !.pc = "serve"]
      /\ ns.pc = "execute" /\ ns.cmds = <<>>
  BY DEF NetInv, NetTyped, Served
<1>2. /\ ns'.pc = "serve" /\ ns'.ready = ns.ready /\ ns'.who = ns.who /\ ns'.cmds = ns.cmds
      /\ ns'.left = ns.left /\ ns'.clean = ns.clean /\ ns' \in Servers
  BY <1>1 DEF Servers
<1>3. Rounds'
  BY <1>1, <1>2 DEF NetInv, Rounds
<1>4. ASSUME NEW d \in NetClients
      PROVE  Unserved(d)' = Unserved(d) /\ (Now(d)' <=> Now(d)) /\ ~Now(d)
  BY <1>1, <1>2 DEF Unserved, Now
<1> QED BY <1>1, <1>2, <1>3, <1>4, NoneChanged

\* A client connects that has not been there before.
LEMMA ConnectKeeps ==
  ASSUME NEW S, Buffers(S), NetAssumption, NetInv(S), NEW c \in NetClients, Connect(c)
  PROVE  NetInv(S)'
<1>1. /\ ns \in Servers /\ nc \in [NetClients -> Connections(S)]
      /\ ns' = ns /\ ns.pc = "poll" /\ ns.cmds = <<>> /\ ns.ready = {}
  BY DEF NetInv, NetTyped, Connect, Rounds
<1>2. PICK n : n = [NoClient EXCEPT !.fd = TRUE, !.listed = TRUE, !.up = TRUE]
  OBVIOUS
<1>3. nc' = [nc EXCEPT ![c] = n]
  BY <1>2 DEF Connect
<1>4. /\ n.fd /\ n.listed /\ n.up /\ n.wire = <<>> /\ n.buf = <<>> /\ n.size = NetFirstBuffer
      /\ n.sent = <<>> /\ n.done = <<>> /\ n.got = <<>> /\ n \in Connections(S)
  <2>1. <<>> \in Texts /\ NetFirstBuffer \in S /\ <<>> \in Seq(NetLines)
        /\ <<>> \in Seq(Texts) /\ <<>> \in Seq(Replies)
    BY DEF Texts, Buffers
  <2>2. n = [fd |-> TRUE, listed |-> TRUE, up |-> TRUE, wire |-> <<>>, buf |-> <<>>,
             size |-> NetFirstBuffer, sent |-> <<>>, done |-> <<>>, got |-> <<>>]
    BY <1>2 DEF NoClient
  <2> QED BY <2>1, <2>2 DEF Connections
<1>5. /\ nc' \in [NetClients -> Connections(S)]
      /\ nc'[c] = n /\ \A d \in NetClients : d # c => nc'[d] = nc[d]
  BY <1>1, <1>3, <1>4, OneChanged
<1>6. NetTyped(S)'
  <2>1. Len(n.buf) <= n.size
    BY <1>4 DEF NetAssumption
  <2> QED BY <1>1, <1>5, <2>1 DEF NetInv, NetTyped
<1>7. Rounds'
  BY <1>1, <1>4, <1>5 DEF NetInv, Rounds
<1>8. \A d \in NetClients :
        Unserved(d) = <<>> /\ ~Now(d) /\ Unserved(d)' = <<>> /\ ~Now(d)'
  BY <1>1 DEF Unserved, Now
<1>9. Client(c)'
  <2>1. Exact(c)'
    BY <1>4, <1>5, <1>8 DEF Exact, Taken
  <2>2. Answered(c)'
    <3>1. nc'[c].got = <<>> /\ nc'[c].done = <<>> /\ ~Now(c)'
      BY <1>4, <1>5, <1>8
    <3>2. Replied(<<>>, <<>>) /\ ~Begun(c)'
      BY <3>1 DEF Replied, Begun
    <3>3. nc'[c].fd /\ nc'[c].up => Len(<<>>) = Len(<<>>) - 0
      OBVIOUS
    <3> QED BY <3>1, <3>2, <3>3 DEF Answered
  <2>3. Flow(c)'
    <3>1. PICK off : off = [i \in 0..0 |-> 0]
      OBVIOUS
    <3>2. Marks(off, <<>>)
      BY <3>1 DEF Marks
    <3>3. Place(off, <<>>, 0, <<>>, <<>>, 0)
      BY <3>1 DEF Place
    <3>4. Stream(off, n, 0)
      BY <1>4, <3>2, <3>3 DEF Stream
    <3>5. Len(nc'[c].done) + Len(Unserved(c)') = 0
      BY <1>4, <1>5, <1>8
    <3> QED BY <1>5, <3>4, <3>5 DEF Flow
  <2> QED BY <2>1, <2>2, <2>3 DEF Client
<1>10. ASSUME NEW d \in NetClients, d # c PROVE Client(d)'
  <2>1. nc'[d] = nc[d] /\ Unserved(d)' = Unserved(d) /\ (Now(d)' <=> Now(d)) /\ ~Now(d)
    BY <1>5, <1>8, <1>10
  <2> QED BY <2>1, ClientSame DEF NetInv
<1> QED BY <1>6, <1>7, <1>9, <1>10 DEF NetInv

\* A client hangs up.
LEMMA HangUpKeeps ==
  ASSUME NEW S, NetInv(S), NEW c \in NetClients, HangUp(c)
  PROVE  NetInv(S)'
<1>1. /\ ns \in Servers /\ nc \in [NetClients -> Connections(S)] /\ ns' = ns
      /\ nc[c].up
  BY DEF NetInv, NetTyped, HangUp
<1>2. PICK n : n = [nc[c] EXCEPT !.up = FALSE]
  OBVIOUS
<1>3. nc' = [nc EXCEPT ![c] = n]
  BY <1>1, <1>2 DEF HangUp
<1>4. /\ n.fd = nc[c].fd /\ n.listed = nc[c].listed /\ ~n.up /\ n.wire = nc[c].wire
      /\ n.buf = nc[c].buf /\ n.size = nc[c].size
      /\ n.sent = nc[c].sent /\ n.done = nc[c].done /\ n.got = nc[c].got /\ n \in Connections(S)
  BY <1>1, <1>2 DEF Connections
<1>5. /\ nc' \in [NetClients -> Connections(S)]
      /\ nc'[c] = n /\ \A d \in NetClients : d # c => nc'[d] = nc[d]
  BY <1>1, <1>3, <1>4, OneChanged
<1>6. NetTyped(S)'
  BY <1>1, <1>4, <1>5 DEF NetInv, NetTyped
<1>7. Rounds'
  BY <1>1, <1>4, <1>5 DEF NetInv, Rounds
<1>8. \A d \in NetClients : Unserved(d)' = Unserved(d) /\ (Now(d)' <=> Now(d))
  BY <1>1 DEF Unserved, Now
<1>9. Client(c)'
  <2>1. Exact(c)'
    BY <1>4, <1>5, <1>8 DEF NetInv, Client, Exact
  <2>2. Answered(c)'
    <3>1. /\ nc'[c].got = nc[c].got /\ nc'[c].done = nc[c].done /\ ~nc'[c].up
          /\ nc'[c].fd = nc[c].fd /\ (Now(c)' <=> Now(c)) /\ ns' = ns
      BY <1>1, <1>4, <1>5, <1>8
    <3>2. Begun(c)' <=> Begun(c)
      BY <3>1 DEF Begun
    <3>3. Begun(c) => Now(c)
      BY DEF Begun
    <3> QED BY <3>1, <3>2, <3>3 DEF NetInv, Client, Answered
  <2>3. Flow(c)'
    BY <1>4, <1>5, <1>8 DEF NetInv, Client, Flow, Stream
  <2> QED BY <2>1, <2>2, <2>3 DEF Client
<1>10. ASSUME NEW d \in NetClients, d # c PROVE Client(d)'
  BY <1>1, <1>5, <1>8, <1>10, ClientSame DEF NetInv
<1> QED BY <1>6, <1>7, <1>9, <1>10 DEF NetInv

\* Who is removed has been cleaned away, before the next poll.
LEMMA CleanKeeps ==
  ASSUME NEW S, Buffers(S), NetAssumption, NetInv(S), CleanClients
  PROVE  NetInv(S)'
<1>1. /\ ns \in Servers /\ nc \in [NetClients -> Connections(S)] /\ ns.pc = "serve"
      /\ ns.cmds = <<>> /\ ns.ready = {}
      /\ ns' = [ns EXCEPT !.pc = "poll", !.clean = FALSE, !.who = ""]
  BY DEF NetInv, NetTyped, CleanClients, Rounds
<1>2. /\ ns'.pc = "poll" /\ ns'.ready = {} /\ ns'.cmds = <<>> /\ ns' \in Servers
  BY <1>1 DEF Servers
<1>3. \A d \in NetClients : Unserved(d) = <<>> /\ ~Now(d) /\ Unserved(d)' = <<>> /\ ~Now(d)'
  BY <1>1, <1>2 DEF Unserved, Now
<1>4. CASE ~ns.clean
  <2>1. nc' = nc
    BY <1>4 DEF CleanClients
  <2>2. Rounds'
    BY <1>1, <1>2, <1>4, <2>1 DEF NetInv, Rounds
  <2>3. \A d \in NetClients : Unserved(d)' = Unserved(d) /\ (Now(d)' <=> Now(d)) /\ ~Now(d)
    BY <1>3
  <2> QED BY <1>2, <2>1, <2>2, <2>3, NoneChanged
<1>5. CASE ns.clean
  <2>1. nc' = [d \in NetClients |->
                 IF nc[d].fd THEN nc[d]
                 ELSE [nc[d] EXCEPT !.listed = FALSE, !.buf = <<>>,
                                    !.wire = <<>>, !.up = FALSE]]
    BY <1>5 DEF CleanClients
  <2>2. ASSUME NEW d \in NetClients, ~nc[d].fd
        PROVE  /\ nc'[d] \in Connections(S) /\ ~nc'[d].listed /\ ~nc'[d].up /\ ~nc'[d].fd
               /\ nc'[d].buf = <<>> /\ nc'[d].size = nc[d].size
               /\ nc'[d].sent = nc[d].sent /\ nc'[d].done = nc[d].done
               /\ nc'[d].got = nc[d].got
    <3>1. PICK n : n = nc[d]
      OBVIOUS
    <3>2. n \in Connections(S) /\ ~n.fd
      BY <1>1, <2>2, <3>1
    <3>3. nc'[d] = [n EXCEPT !.listed = FALSE, !.buf = <<>>, !.wire = <<>>, !.up = FALSE]
      BY <2>1, <2>2, <3>1
    <3>4. <<>> \in Texts
      BY DEF Texts
    <3> QED BY <3>1, <3>2, <3>3, <3>4 DEF Connections
  <2>3. \A d \in NetClients : nc[d].fd => nc'[d] = nc[d]
    BY <2>1
  <2>4. nc' \in [NetClients -> Connections(S)]
    <3>1. \A d \in NetClients : nc'[d] \in Connections(S)
      BY <1>1, <2>2, <2>3
    <3> QED BY <2>1, <3>1
  <2>5. ASSUME NEW d \in NetClients PROVE Len(nc'[d].buf) <= nc'[d].size
    <3>1. CASE nc[d].fd
      BY <2>3, <3>1 DEF NetInv, NetTyped
    <3>2. CASE ~nc[d].fd
      <4>1. Len(<<>>) = 0 /\ Len(nc[d].buf) \in Nat /\ Len(nc[d].buf) <= nc[d].size
        <5>1. nc[d] \in Connections(S) /\ Len(nc[d].buf) <= nc[d].size
          BY <1>1 DEF NetInv, NetTyped
        <5>2. nc[d].buf \in Seq(Pieces)
          BY <5>1 DEF Connections, Texts
        <5> QED BY <5>1, <5>2
      <4>2. nc[d].size \in Nat
        <5>1. nc[d].size \in NetFirstBuffer .. NetMaxBuffer
          BY <1>1 DEF Connections, Buffers
        <5>2. NetFirstBuffer \in Nat /\ NetMaxBuffer \in Nat
          BY DEF NetAssumption
        <5> QED BY <5>1, <5>2
      <4> QED BY <2>2, <3>2, <4>1, <4>2
    <3> QED BY <3>1, <3>2
  <2>6. NetTyped(S)'
    BY <1>2, <2>4, <2>5 DEF NetTyped
  <2>7. Rounds'
    BY <1>2, <2>2, <2>3 DEF NetInv, Rounds
  <2>8. ASSUME NEW d \in NetClients PROVE Client(d)'
    <3>1. CASE nc[d].fd
      <4>1. nc'[d] = nc[d] /\ Unserved(d)' = Unserved(d) /\ (Now(d)' <=> Now(d)) /\ ~Now(d)
        BY <1>3, <2>3, <3>1
      <4> QED BY <4>1, ClientSame DEF NetInv
    <3>2. CASE ~nc[d].fd
      <4>1. Exact(d)'
        BY <1>3, <2>2, <3>2 DEF NetInv, Client, Exact
      <4>2. Answered(d)'
        BY <1>3, <2>2, <2>3, <3>2, AnsweredKept DEF NetInv, Client
      <4>3. Flow(d)'
        BY <2>2, <3>2 DEF Flow
      <4> QED BY <4>1, <4>2, <4>3 DEF Client
    <3> QED BY <3>1, <3>2
  <2> QED BY <2>6, <2>7, <2>8 DEF NetInv
<1> QED BY <1>4, <1>5

\* What is not served yet.
LEMMA UnservedTyped ==
  ASSUME NEW S, NetInv(S), NEW c
  PROVE  Unserved(c) \in Seq(Texts)
<1>1. ns.cmds \in Seq(Texts) /\ (ns.pc = "answer" => ns.cmds # <<>>)
  BY DEF NetInv, NetTyped, Servers, Rounds
<1>2. CASE ns.who = c /\ ns.pc = "answer"
  BY <1>1, <1>2 DEF Unserved
<1>3. CASE ~(ns.who = c /\ ns.pc = "answer")
  <2>1. <<>> \in Seq(Texts)
    OBVIOUS
  <2> QED BY <1>1, <1>3, <2>1 DEF Unserved
<1> QED BY <1>2, <1>3

\* A client sends a line, nothing behind a quit.
LEMMA SendNetKeeps ==
  ASSUME NEW S, NetAssumption, PlainLines, ~NetAfterQuit, NetInv(S),
         NEW c \in NetClients, Send(c)
  PROVE  NetInv(S)'
<1>1. /\ ns \in Servers /\ nc \in [NetClients -> Connections(S)] /\ nc[c] \in Connections(S)
      /\ ns' = [ns EXCEPT !.turns = @ + 1] /\ nc[c].up
      /\ \A i \in DOMAIN nc[c].sent : nc[c].sent[i].name # Quit
  BY DEF NetInv, NetTyped, Send
<1>2. /\ ns'.pc = ns.pc /\ ns'.ready = ns.ready /\ ns'.who = ns.who /\ ns'.cmds = ns.cmds
      /\ ns'.left = ns.left /\ ns'.clean = ns.clean /\ ns' \in Servers
  <2>1. ns.turns + 1 \in Nat
    <3>1. ns.turns \in Nat
      BY <1>1 DEF Servers
    <3> QED BY <3>1
  <2> QED BY <1>1, <2>1 DEF Servers
<1>3. PICK l \in NetLines :
        nc' = [nc EXCEPT ![c].wire = @ \o Wire(l), ![c].sent = Append(@, l)]
  BY DEF Send
<1>4. PICK m : m = nc[c]
  OBVIOUS
<1>5. /\ m \in Connections(S) /\ m.wire \in Texts /\ m.sent \in Seq(NetLines)
      /\ m.done \in Seq(Texts) /\ m.buf \in Texts
  BY <1>1, <1>4 DEF Connections
<1>6. PICK w, sent : w = m.wire \o Wire(l) /\ sent = Append(m.sent, l)
  OBVIOUS
<1>7. PICK n : n = [m EXCEPT !.wire = w, !.sent = sent]
  OBVIOUS
<1>8. nc' = [nc EXCEPT ![c] = n]
  BY <1>1, <1>3, <1>4, <1>6, <1>7
<1>9. PICK N \in Nat : N = Len(m.sent)
  BY <1>5
<1>10. /\ sent \in Seq(NetLines) /\ Len(sent) = N + 1 /\ sent[N + 1] = l
       /\ \A i \in 1..N : sent[i] = m.sent[i]
  BY <1>5, <1>6, <1>9
<1>11. PICK x \in Nat, k \in Nat : x = Len(m.wire) /\ k = l.length
  <2>1. Len(m.wire) \in Nat
    BY <1>5 DEF Texts
  <2>2. l.length \in Nat
    BY OnWire
  <2> QED BY <2>1, <2>2
<1>12. /\ w \in Texts /\ Len(w) = x + (k + 2)
       /\ \A i \in 1..x : w[i] = m.wire[i]
       /\ \A i \in 1..k+2 : w[x + i] = Wire(l)[i]
  <2>1. PICK a \in Seq(Pieces), b \in Seq(Pieces) :
          a = m.wire /\ b = Wire(l) /\ Len(a) = x /\ Len(b) = k + 2
    BY <1>5, <1>11, OnWire DEF Texts
  <2>2. /\ a \o b \in Seq(Pieces) /\ Len(a \o b) = Len(a) + Len(b)
        /\ \A i \in 1..Len(a) : (a \o b)[i] = a[i]
        /\ \A i \in Len(a) + 1..Len(a) + Len(b) : (a \o b)[i] = b[i - Len(a)]
    <3>1. \A i \in 1..Len(a) : i \in 1..Len(a) + Len(b) /\ i <= Len(a)
      OBVIOUS
    <3>2. \A i \in Len(a) + 1..Len(a) + Len(b) : i \in 1..Len(a) + Len(b) /\ ~(i <= Len(a))
      OBVIOUS
    <3> QED BY <3>1, <3>2, ConcatProperties
  <2>3. \A i \in 1..k+2 : x + i \in x + 1..x + (k + 2) /\ x + i - x = i
    OBVIOUS
  <2>4. w = a \o b
    BY <1>6, <2>1
  <2>5. /\ w \in Seq(Pieces) /\ Len(w) = x + (k + 2) /\ \A i \in 1..x : w[i] = m.wire[i]
    BY <2>1, <2>2, <2>4
  <2>6. \A i \in x + 1..x + (k + 2) : w[i] = Wire(l)[i - x]
    BY <2>1, <2>2, <2>4
  <2>7. ASSUME NEW i \in 1..k+2 PROVE w[x + i] = Wire(l)[i]
    <3>1. PICK r : r = x + i
      OBVIOUS
    <3>2. r \in x + 1..x + (k + 2) /\ r - x = i
      BY <2>3, <3>1
    <3>3. w[r] = Wire(l)[r - x]
      BY <2>6, <3>2
    <3> QED BY <3>1, <3>2, <3>3
  <2> QED BY <2>5, <2>7 DEF Texts
<1>13. /\ n.fd = m.fd /\ n.listed = m.listed /\ n.up = m.up /\ n.wire = w
       /\ n.buf = m.buf /\ n.size = m.size
       /\ n.sent = sent /\ n.done = m.done /\ n.got = m.got /\ n \in Connections(S)
  BY <1>5, <1>7, <1>10, <1>12 DEF Connections
<1>14. /\ nc' \in [NetClients -> Connections(S)]
       /\ nc'[c] = n /\ \A d \in NetClients : d # c => nc'[d] = nc[d]
  BY <1>1, <1>8, <1>13, OneChanged
<1>15. NetTyped(S)'
  BY <1>2, <1>4, <1>13, <1>14 DEF NetInv, NetTyped
<1>16. Rounds'
  BY <1>2, <1>4, <1>13, <1>14 DEF NetInv, Rounds
<1>17. \A d \in NetClients : Unserved(d)' = Unserved(d) /\ (Now(d)' <=> Now(d))
  BY <1>2 DEF Unserved, Now
<1>18. Exact(c) /\ Answered(c) /\ Flow(c)
  BY DEF NetInv, Client
<1>19. Exact(c)'
  <2>1. ASSUME NEW i \in 1..Len(sent) - 1 PROVE sent[i].name # Quit
    <3>1. i \in 1..N
      BY <1>10
    <3>2. i \in DOMAIN m.sent
      BY <1>5, <1>9, <3>1
    <3> QED BY <1>1, <1>4, <1>10, <3>1, <3>2
  <2>2. ASSUME NEW cmds \in Seq(Texts), NEW base \in Nat, Taken(cmds, m.sent, base)
        PROVE  Taken(cmds, sent, base)
    <3>1. PICK z \in Nat : z = Len(cmds) /\ base + z <= N
      BY <1>9, <2>2 DEF Taken
    <3>2. \A i \in 1..z : base + i \in 1..N
      BY <3>1
    <3>3. base + z <= N + 1
      BY <3>1
    <3> QED BY <1>9, <1>10, <2>2, <3>1, <3>2, <3>3 DEF Taken
  <2>3. Unserved(c) \in Seq(Texts)
    BY UnservedTyped
  <2>4. Len(m.done) \in Nat /\ 0 \in Nat
    BY <1>5
  <2>5. Taken(m.done, sent, 0)
    BY <1>4, <1>5, <1>18, <2>2, <2>4 DEF Exact
  <2>6. Taken(Unserved(c), sent, Len(m.done))
    BY <1>4, <1>18, <2>2, <2>3, <2>4 DEF Exact
  <2> QED BY <1>13, <1>14, <1>17, <2>1, <2>5, <2>6 DEF Exact
<1>20. Answered(c)'
  <2>1. /\ nc'[c].got = nc[c].got /\ nc'[c].done = nc[c].done /\ nc'[c].up = nc[c].up
        /\ nc'[c].fd = nc[c].fd /\ (Now(c)' <=> Now(c)) /\ ns'.cmds = ns.cmds
        /\ ns'.left = ns.left
    BY <1>2, <1>4, <1>13, <1>14, <1>17
  <2>2. Begun(c)' <=> Begun(c)
    BY <2>1 DEF Begun
  <2>3. Begun(c) => Now(c)
    BY DEF Begun
  <2> QED BY <1>18, <2>1, <2>2, <2>3 DEF Answered
<1>21. Flow(c)'
  <2> SUFFICES ASSUME m.fd
               PROVE  \E off : Stream(off, n, Len(m.done) + Len(Unserved(c)))
    BY <1>13, <1>14, <1>17 DEF Flow
  <2>1. PICK j : j = Len(m.done) + Len(Unserved(c))
    OBVIOUS
  <2>2. j \in 0..N
    <3>1. Len(m.done) \in Nat /\ Unserved(c) \in Seq(Texts)
      BY <1>5, UnservedTyped
    <3>2. Len(m.done) + Len(Unserved(c)) <= N
      BY <1>4, <1>9, <1>18 DEF Exact, Taken
    <3> QED BY <2>1, <3>1, <3>2
  <2>3. PICK off : Marks(off, m.sent) /\ Place(off, m.sent, j, m.buf, m.wire, 0)
    BY <1>4, <1>18, <2>1 DEF Flow, Stream
  <2>4. PICK e : e = [i \in 0..N + 1 |-> IF i = N + 1 THEN off[N] + k + 2 ELSE off[i]]
    OBVIOUS
  <2>5. /\ N \in 0..N /\ off \in [0..N -> Nat] /\ off[N] \in Nat /\ off[0] = 0 /\ 0 \in 0..N
        /\ \A i \in 1..N : off[i] = off[i - 1] + m.sent[i].length + 2
        /\ \A i \in 0..N : off[i] <= off[N]
    <3>1. N \in 0..N /\ 0 \in 0..N
      OBVIOUS
    <3> QED BY <1>9, <2>3, <3>1 DEF Marks
  <2>6. /\ e[N + 1] = off[N] + k + 2 /\ \A i \in 0..N : e[i] = off[i]
    <3>1. \A i \in 0..N : i \in 0..N + 1 /\ i # N + 1
      OBVIOUS
    <3>2. N + 1 \in 0..N + 1
      OBVIOUS
    <3> QED BY <2>4, <3>1, <3>2
  <2>7. Marks(e, sent)
    <3>1. e \in [0..N + 1 -> Nat]
      <4>1. \A i \in 0..N + 1 : i = N + 1 \/ i \in 0..N
        OBVIOUS
      <4> QED BY <2>4, <2>5, <4>1
    <3>2. ASSUME NEW i \in 1..N + 1 PROVE e[i] = e[i - 1] + sent[i].length + 2
      <4>1. CASE i = N + 1
        <5>1. i - 1 = N /\ N \in 0..N
          BY <4>1
        <5> QED BY <1>10, <1>11, <2>6, <4>1, <5>1
      <4>2. CASE i # N + 1
        <5>1. i \in 1..N /\ i \in 0..N /\ i - 1 \in 0..N
          BY <4>2
        <5> QED BY <1>10, <2>5, <2>6, <5>1
      <4> QED BY <4>1, <4>2
    <3>3. ASSUME NEW i \in 0..N + 1 PROVE e[i] <= e[N + 1]
      <4>1. CASE i = N + 1
        <5>1. e[i] \in Nat
          BY <3>1
        <5> QED BY <4>1, <5>1
      <4>2. CASE i # N + 1
        <5>1. i \in 0..N
          BY <4>2
        <5>2. PICK y \in Nat, z \in Nat : y = off[i] /\ z = off[N] /\ y <= z
          BY <2>5, <5>1
        <5>3. y <= z + k + 2
          BY <5>2
        <5> QED BY <2>6, <5>1, <5>2, <5>3
      <4> QED BY <4>1, <4>2
    <3>4. e[0] = 0
      BY <2>5, <2>6
    <3> QED BY <1>10, <3>1, <3>2, <3>3, <3>4 DEF Marks
  <2>8. PICK o \in Nat, L \in Nat, y \in Nat : o = off[j] /\ L = Len(m.buf) /\ y = off[N]
    BY <1>5, <2>2, <2>5 DEF Texts
  <2>9. x - 0 = y - (o + L) /\ e[j] = o /\ e[N + 1] = y + k + 2
    BY <1>9, <1>11, <2>2, <2>3, <2>6, <2>8 DEF Place
  <2>10. Place(e, sent, j, m.buf, w, 0)
    <3>1. Len(w) - 0 = e[Len(sent)] - (e[j] + L)
      <4>1. x + (k + 2) - 0 = (y + k + 2) - (o + L)
        BY <2>9
      <4> QED BY <1>10, <1>12, <2>9, <4>1
    <3>2. j # Len(sent)
      BY <1>10, <2>2
    <3>3. L <= sent[j + 1].length + 1 /\ \A i \in 1..L : m.buf[i] = Wire(sent[j + 1])[i]
      <4>1. CASE j = N
        <5>1. L = 0
          BY <1>9, <2>3, <2>8, <4>1 DEF Place
        <5>2. 0 <= k + 1 /\ \A i \in 1..0 : FALSE
          OBVIOUS
        <5> QED BY <1>10, <1>11, <4>1, <5>1, <5>2
      <4>2. CASE j # N
        <5>1. j < N /\ j + 1 \in 1..N
          BY <2>2, <4>2
        <5> QED BY <1>9, <1>10, <2>3, <2>8, <5>1 DEF Place
      <4> QED BY <4>1, <4>2
    <3>4. ASSUME NEW i \in j + 1 .. N + 1, NEW h \in 1 .. sent[i].length + 2,
                 e[i - 1] + h > o + L
          PROVE  w[e[i - 1] + h - (o + L) + 0] = Wire(sent[i])[h]
      <4>1. i \in 1..N + 1 /\ i - 1 \in 0..N
        BY <2>2
      <4>2. sent[i].length \in Nat
        <5>1. sent[i] \in NetLines
          BY <1>10, <4>1
        <5> QED BY <5>1, OnWire
      <4>3. PICK p \in Nat, hh \in Nat, z \in Nat :
              p = off[i - 1] /\ hh = h /\ z = sent[i].length
        <5>1. off[i - 1] \in Nat /\ h \in Nat
          BY <2>5, <4>1, <4>2
        <5> QED BY <4>2, <5>1
      <4>4. e[i - 1] = p /\ p + hh > o + L
        BY <2>6, <3>4, <4>1, <4>3
      <4>5. CASE i = N + 1
        <5>1. i - 1 = N /\ p = y /\ sent[i] = l
          <6>1. i - 1 = N
            BY <4>5
          <6> QED BY <1>10, <2>8, <4>3, <4>5, <6>1
        <5>2. p + hh - (o + L) + 0 = x + hh
          BY <2>9, <5>1
        <5>3. hh \in 1..k + 2
          BY <1>11, <4>3, <5>1
        <5>4. w[x + hh] = Wire(l)[hh]
          BY <1>12, <5>3
        <5> QED BY <4>3, <4>4, <5>1, <5>2, <5>4
      <4>6. CASE i # N + 1
        <5>1. i \in 1..N /\ i \in j + 1 .. N /\ i \in 0..N
          BY <2>2, <4>6
        <5>2. sent[i] = m.sent[i]
          BY <1>10, <5>1
        <5>3. p + z + 2 <= y
          BY <2>5, <2>8, <4>3, <5>1, <5>2
        <5>4. hh <= z + 2
          BY <4>3
        <5>5. p + hh - (o + L) + 0 \in 1..x
          BY <2>9, <4>4, <5>3, <5>4
        <5>6. w[p + hh - (o + L) + 0] = m.wire[p + hh - (o + L) + 0]
          BY <1>12, <5>5
        <5>7. m.wire[p + hh - (o + L) + 0] = Wire(m.sent[i])[h]
          <6>1. i \in j + 1 .. Len(m.sent) /\ h \in 1 .. m.sent[i].length + 2
            BY <1>9, <5>1, <5>2
          <6>2. off[i - 1] + h > off[j] + Len(m.buf)
            BY <2>8, <4>3, <4>4
          <6>3. m.wire[off[i - 1] + h - (off[j] + Len(m.buf)) + 0] = Wire(m.sent[i])[h]
            BY <2>3, <6>1, <6>2 DEF Place
          <6> QED BY <2>8, <4>3, <6>3
        <5> QED BY <4>3, <4>4, <5>2, <5>6, <5>7
      <4> QED BY <4>5, <4>6
    <3>5. e[j] + L = o + L /\ Len(m.buf) = L /\ Len(sent) = N + 1
      BY <1>10, <2>8, <2>9
    <3>6. \A i \in j + 1 .. Len(sent) : \A h \in 1 .. sent[i].length + 2 :
            e[i - 1] + h > e[j] + Len(m.buf) =>
              w[e[i - 1] + h - (e[j] + Len(m.buf)) + 0] = Wire(sent[i])[h]
      <4>1. e[j] = o
        BY <2>9
      <4>2. Len(m.buf) = L /\ Len(sent) = N + 1
        BY <3>5
      <4> QED BY <3>4, <4>1, <4>2
    <3>7. /\ Len(w) - 0 = e[Len(sent)] - (e[j] + Len(m.buf))
          /\ Len(m.buf) <= sent[j + 1].length + 1
          /\ \A i \in 1..Len(m.buf) : m.buf[i] = Wire(sent[j + 1])[i]
      BY <3>1, <3>3, <3>5
    <3> QED BY <3>2, <3>6, <3>7 DEF Place
  <2> QED BY <1>13, <2>1, <2>7, <2>10 DEF Stream
<1>22. ASSUME NEW d \in NetClients, d # c PROVE Client(d)'
  <2>1. nc'[d] = nc[d] /\ Unserved(d)' = Unserved(d) /\ (Now(d)' <=> Now(d))
    BY <1>14, <1>17, <1>22
  <2> QED BY <1>2, <2>1, ClientSame DEF NetInv
<1> QED BY <1>15, <1>16, <1>19, <1>20, <1>21, <1>22 DEF NetInv, Client

\* One read of what a client has sent.
LEMMA ReadNetKeeps ==
  ASSUME NEW S, Buffers(S), NetAssumption, PlainLines, NetInv(S), Read
  PROVE  NetInv(S)'
<1>1. /\ ns \in Servers /\ nc \in [NetClients -> Connections(S)] /\ ns.pc = "serve"
      /\ ns.cmds = <<>> /\ ns.ready \subseteq NetClients
  BY DEF NetInv, NetTyped, Read, Rounds, Servers
<1>2. PICK c \in ns.ready :
        IF nc[c].wire = <<>>
        THEN /\ nc' = Removed(nc, c)
             /\ ns' = [ns EXCEPT !.ready = @ \ {c}, !.clean = TRUE]
        ELSE \E n \in 1 .. Len(nc[c].wire) :
             /\ nc' = [nc EXCEPT ![c].wire = SubSeq(@, n + 1, Len(@)),
                                 ![c].buf = Parsed(c, n).buf, ![c].size = Parsed(c, n).size]
             /\ ns' = [ns EXCEPT !.ready = @ \ {c}, !.who = c,
                                 !.cmds = Parsed(c, n).cmds, !.pc = "execute"]
  BY DEF Read
<1>3. PICK m : m = nc[c]
  OBVIOUS
<1>4. c \in NetClients /\ m \in Connections(S) /\ m.fd /\ m.listed
  BY <1>1, <1>2, <1>3 DEF NetInv, Rounds
<1>5. \A d \in NetClients : Unserved(d) = <<>> /\ ~Now(d)
  BY <1>1 DEF Unserved, Now
<1>6. CASE m.wire = <<>>
  <2>1. nc' = Removed(nc, c) /\ ns' = [ns EXCEPT !.ready = @ \ {c}, !.clean = TRUE]
    BY <1>2, <1>3, <1>6
  <2>2. PICK n : n = [m EXCEPT !.fd = FALSE]
    OBVIOUS
  <2>3. nc' = [nc EXCEPT ![c] = n]
    BY <1>1, <1>3, <1>4, <2>1, <2>2 DEF Removed
  <2>4. /\ ~n.fd /\ n.listed = m.listed /\ n.up = m.up /\ n.wire = m.wire
        /\ n.buf = m.buf /\ n.size = m.size
        /\ n.sent = m.sent /\ n.done = m.done /\ n.got = m.got /\ n \in Connections(S)
    BY <1>4, <2>2 DEF Connections
  <2>5. /\ nc' \in [NetClients -> Connections(S)]
        /\ nc'[c] = n /\ \A d \in NetClients : d # c => nc'[d] = nc[d]
    BY <1>1, <1>4, <2>3, <2>4, OneChanged
  <2>6. /\ ns'.pc = "serve" /\ ns'.ready = ns.ready \ {c} /\ ns'.who = ns.who
        /\ ns'.cmds = <<>> /\ ns'.clean /\ ns' \in Servers
    BY <1>1, <2>1 DEF Servers
  <2>7. NetTyped(S)'
    BY <1>3, <2>4, <2>5, <2>6 DEF NetInv, NetTyped
  <2>8. Rounds'
    BY <1>1, <1>3, <1>4, <2>4, <2>5, <2>6 DEF NetInv, Rounds
  <2>9. \A d \in NetClients : Unserved(d)' = <<>> /\ ~Now(d)'
    BY <2>6 DEF Unserved, Now
  <2>10. Client(c)'
    <3>1. Exact(c) /\ Answered(c)
      BY <1>4 DEF NetInv, Client
    <3>2. Exact(c)'
      BY <1>3, <1>4, <1>5, <2>4, <2>5, <2>9, <3>1 DEF Exact
    <3>3. Answered(c)'
      <4>1. /\ nc'[c].got = nc[c].got /\ nc'[c].done = nc[c].done
            /\ (nc'[c].fd => nc[c].fd) /\ (nc'[c].up => nc[c].up)
        BY <1>3, <2>4, <2>5
      <4>2. ~Now(c) /\ ~Now(c)'
        BY <1>4, <1>5, <2>9
      <4> QED BY <3>1, <4>1, <4>2, AnsweredKept
    <3>4. Flow(c)'
      BY <2>4, <2>5 DEF Flow
    <3> QED BY <3>2, <3>3, <3>4 DEF Client
  <2>11. ASSUME NEW d \in NetClients, d # c PROVE Client(d)'
    <3>1. nc'[d] = nc[d] /\ Unserved(d)' = Unserved(d) /\ (Now(d)' <=> Now(d)) /\ ~Now(d)
      BY <1>5, <2>5, <2>9, <2>11
    <3> QED BY <3>1, ClientSame DEF NetInv
  <2> QED BY <2>7, <2>8, <2>10, <2>11 DEF NetInv
<1>7. CASE m.wire # <<>>
  <2>1. PICK k \in 1..Len(m.wire) :
          /\ nc' = [nc EXCEPT ![c].wire = SubSeq(@, k + 1, Len(@)),
                              ![c].buf = Parsed(c, k).buf, ![c].size = Parsed(c, k).size]
          /\ ns' = [ns EXCEPT !.ready = @ \ {c}, !.who = c,
                              !.cmds = Parsed(c, k).cmds, !.pc = "execute"]
    BY <1>2, <1>3, <1>7
  <2>2. PICK p, v : p = Parsed(c, k) /\ v = SubSeq(m.wire, k + 1, Len(m.wire))
    OBVIOUS
  <2>3. PICK n : n = [m EXCEPT !.wire = v, !.buf = p.buf, !.size = p.size]
    OBVIOUS
  <2>4. nc' = [nc EXCEPT ![c] = n]
    BY <1>1, <1>3, <1>4, <2>1, <2>2, <2>3
  <2>5. ns' = [ns EXCEPT !.ready = @ \ {c}, !.who = c, !.cmds = p.cmds, !.pc = "execute"]
    BY <2>1, <2>2
  <2>6. Exact(c) /\ Answered(c) /\ Flow(c)
    BY <1>4 DEF NetInv, Client
  <2>7. PICK base : base = Len(m.done)
    OBVIOUS
  <2>8. base \in 0..Len(m.sent) /\ base \in Nat
    <3>1. m.done \in Seq(Texts) /\ m.sent \in Seq(NetLines)
      BY <1>4 DEF Connections
    <3>2. 0 + Len(m.done) <= Len(m.sent)
      BY <1>3, <2>6 DEF Exact, Taken
    <3> QED BY <2>7, <3>1, <3>2
  <2>9. PICK off : Stream(off, nc[c], base)
    <3>1. Len(m.done) + Len(Unserved(c)) = base
      BY <1>4, <1>5, <2>7, <2>8
    <3> QED BY <1>3, <1>4, <2>6, <3>1 DEF Flow
  <2>10. /\ p \in [buf : Texts, size : S, cmds : Seq(Texts)]
         /\ Taken(p.cmds, m.sent, base) /\ Len(p.buf) <= p.size
         /\ v \in Texts /\ Place(off, m.sent, base + Len(p.cmds), p.buf, v, 0)
    <3>1. nc[c] \in Connections(S) /\ Len(nc[c].buf) <= nc[c].size
      BY <1>3, <1>4 DEF NetInv, NetTyped
    <3>2. base \in 0..Len(nc[c].sent) /\ k \in 1..Len(nc[c].wire)
          /\ v = SubSeq(nc[c].wire, k + 1, Len(nc[c].wire))
      BY <1>3, <2>2, <2>8
    <3>3. /\ p \in [buf : Texts, size : S, cmds : Seq(Texts)]
          /\ Taken(p.cmds, nc[c].sent, base) /\ Len(p.buf) <= p.size
          /\ v \in Texts /\ Place(off, nc[c].sent, base + Len(p.cmds), p.buf, v, 0)
      BY <2>2, <2>9, <3>1, <3>2, ReadWhole
    <3> QED BY <1>3, <3>3
  <2>11. /\ n.fd = m.fd /\ n.listed = m.listed /\ n.up = m.up /\ n.wire = v
         /\ n.buf = p.buf /\ n.size = p.size
         /\ n.sent = m.sent /\ n.done = m.done /\ n.got = m.got /\ n \in Connections(S)
    BY <1>4, <2>3, <2>10 DEF Connections
  <2>12. /\ nc' \in [NetClients -> Connections(S)]
         /\ nc'[c] = n /\ \A d \in NetClients : d # c => nc'[d] = nc[d]
    BY <1>1, <1>4, <2>4, <2>11, OneChanged
  <2>13. /\ ns'.pc = "execute" /\ ns'.ready = ns.ready \ {c} /\ ns'.who = c
         /\ ns'.cmds = p.cmds /\ ns'.clean = ns.clean /\ ns' \in Servers
    BY <1>1, <1>4, <2>5, <2>10 DEF Servers
  <2>14. NetTyped(S)'
    BY <2>10, <2>11, <2>12, <2>13 DEF NetInv, NetTyped
  <2>15. Rounds'
    BY <1>1, <1>3, <1>4, <2>11, <2>12, <2>13 DEF NetInv, Rounds
  <2>16. /\ \A d \in NetClients : d # c => Unserved(d)' = <<>>
         /\ \A d \in NetClients : ~Now(d)'
         /\ Unserved(c)' = p.cmds
    BY <2>13 DEF Unserved, Now
  <2>17. Exact(c)'
    BY <1>3, <1>4, <2>6, <2>7, <2>10, <2>11, <2>12, <2>16 DEF Exact
  <2>18. Answered(c)'
    <3>1. /\ nc'[c].got = nc[c].got /\ nc'[c].done = nc[c].done
          /\ (nc'[c].fd => nc[c].fd) /\ (nc'[c].up => nc[c].up)
      BY <1>3, <2>11, <2>12
    <3>2. ~Now(c) /\ ~Now(c)'
      BY <1>4, <1>5, <2>16
    <3> QED BY <2>6, <3>1, <3>2, AnsweredKept
  <2>19. Flow(c)'
    <3>1. Marks(off, m.sent)
      BY <1>3, <2>9 DEF Stream
    <3>2. Stream(off, n, base + Len(p.cmds))
      BY <2>10, <2>11, <3>1 DEF Stream
    <3> QED BY <2>7, <2>11, <2>12, <2>16, <3>2 DEF Flow
  <2>20. ASSUME NEW d \in NetClients, d # c PROVE Client(d)'
    <3>1. nc'[d] = nc[d] /\ Unserved(d)' = Unserved(d) /\ (Now(d)' <=> Now(d)) /\ ~Now(d)
      BY <1>5, <2>12, <2>16, <2>20
    <3> QED BY <3>1, ClientSame DEF NetInv
  <2> QED BY <1>4, <2>14, <2>15, <2>17, <2>18, <2>19, <2>20 DEF NetInv, Client
<1> QED BY <1>6, <1>7

\* The first of what is taken, and the rest.
LEMMA TakenFirst ==
  ASSUME NEW cmds \in Seq(Texts), cmds # <<>>, NEW sent \in Seq(NetLines), NEW base \in Nat,
         Taken(cmds, sent, base)
  PROVE  /\ Head(cmds) \in Texts /\ Tail(cmds) \in Seq(Texts)
         /\ Len(Tail(cmds)) = Len(cmds) - 1 /\ Len(cmds) \in Nat /\ Len(cmds) >= 1
         /\ base + 1 \in 1..Len(sent)
         /\ IsLine(Head(cmds)) /\ Line(Head(cmds)) = sent[base + 1]
         /\ Taken(Tail(cmds), sent, base + 1)
<1>1. PICK n \in Nat : n = Len(cmds) /\ n >= 1
  OBVIOUS
<1>2. /\ Head(cmds) = cmds[1] /\ cmds[1] \in Texts /\ Tail(cmds) \in Seq(Texts)
      /\ Len(Tail(cmds)) = n - 1 /\ \A i \in 1..n-1 : Tail(cmds)[i] = cmds[i + 1]
  BY <1>1
<1>3. /\ base + n <= Len(sent) /\ 1 \in 1..n /\ Len(sent) \in Nat
      /\ \A i \in 1..n : IsLine(cmds[i]) /\ Line(cmds[i]) = sent[base + i]
  BY <1>1 DEF Taken
<1>4. base + 1 \in 1..Len(sent) /\ (base + 1) + (n - 1) <= Len(sent)
  BY <1>1, <1>3
<1>5. \A i \in 1..n-1 : i + 1 \in 1..n /\ base + (i + 1) = (base + 1) + i
  OBVIOUS
<1>6. PICK t : t = Tail(cmds)
  OBVIOUS
<1>7. Taken(t, sent, base + 1)
  BY <1>2, <1>3, <1>4, <1>5, <1>6 DEF Taken
<1> QED BY <1>1, <1>2, <1>3, <1>4, <1>6, <1>7

\* A line is executed, or the client leaves.
LEMMA ExecuteNetKeeps ==
  ASSUME NEW S, NetAssumption, PlainLines, NetInv(S), Execute
  PROVE  NetInv(S)'
<1>1. /\ ns \in Servers /\ nc \in [NetClients -> Connections(S)] /\ ns.pc = "execute"
      /\ ns.cmds # <<>> /\ ns.who \in NetClients \ ns.ready /\ ns.cmds \in Seq(Texts)
  BY DEF NetInv, NetTyped, Execute, Rounds, Servers
<1>2. PICK c, l, m : c = ns.who /\ l = Head(ns.cmds) /\ m = nc[c]
  OBVIOUS
<1>3. /\ c \in NetClients /\ m \in Connections(S) /\ m.done \in Seq(Texts)
      /\ m.sent \in Seq(NetLines) /\ Len(m.done) \in Nat /\ Len(m.sent) \in Nat
  <2>1. c \in NetClients /\ m \in Connections(S)
    BY <1>1, <1>2
  <2>2. m.done \in Seq(Texts) /\ m.sent \in Seq(NetLines)
    BY <2>1 DEF Connections
  <2> QED BY <2>1, <2>2
<1>4. Unserved(c) = ns.cmds /\ \A d \in NetClients : ~Now(d) /\ (d # c => Unserved(d) = <<>>)
  BY <1>1, <1>2 DEF Unserved, Now
<1>5. Exact(c) /\ Answered(c) /\ Flow(c)
  BY <1>3 DEF NetInv, Client
<1>6. /\ l \in Texts /\ Tail(ns.cmds) \in Seq(Texts)
      /\ Len(Tail(ns.cmds)) = Len(ns.cmds) - 1 /\ Len(ns.cmds) \in Nat /\ Len(ns.cmds) >= 1
      /\ Len(m.done) + 1 \in 1..Len(m.sent)
      /\ IsLine(l) /\ Line(l) = m.sent[Len(m.done) + 1]
      /\ Taken(Tail(ns.cmds), m.sent, Len(m.done) + 1)
  <2>1. Taken(ns.cmds, m.sent, Len(m.done))
    BY <1>2, <1>4, <1>5 DEF Exact
  <2> QED BY <1>1, <1>2, <1>3, <2>1, TakenFirst, ZenonT(60)
<1>7. Taken(m.done, m.sent, 0) /\ \A i \in 1 .. Len(m.sent) - 1 : m.sent[i].name # Quit
  BY <1>2, <1>5 DEF Exact
<1>8. CASE l # <<>> /\ l[1] = Quit
  <2>1. nc' = Removed(nc, c) /\ ns' = [ns EXCEPT !.cmds = Tail(@), !.clean = TRUE]
    BY <1>2, <1>8 DEF Execute
  <2>2. Len(m.done) + 1 = Len(m.sent)
    <3>1. m.sent[Len(m.done) + 1].name = Quit
      BY <1>6, <1>8 DEF Line
    <3>2. Len(m.done) + 1 \notin 1..Len(m.sent) - 1
      BY <1>7, <3>1
    <3> QED BY <1>3, <1>6, <3>2
  <2>3. Tail(ns.cmds) = <<>>
    <3>1. (Len(m.done) + 1) + Len(Tail(ns.cmds)) <= Len(m.sent)
      BY <1>6 DEF Taken
    <3>2. PICK t \in Seq(Texts) : t = Tail(ns.cmds)
      BY <1>6
    <3>3. Len(t) <= 0
      <4>1. PICK a \in Nat, b \in Nat, d \in Nat :
              a = Len(t) /\ b = Len(m.sent) /\ d = Len(m.done)
        <5>1. Len(t) \in Nat
          BY <3>2
        <5> QED BY <1>3, <5>1
      <4>2. (d + 1) + a <= b /\ d + 1 = b
        BY <2>2, <3>1, <3>2, <4>1
      <4>3. a <= 0
        BY <4>1, <4>2
      <4> QED BY <4>1, <4>3
    <3> QED BY <3>2, <3>3
  <2>4. PICK n : n = [m EXCEPT !.fd = FALSE]
    OBVIOUS
  <2>5. nc' = [nc EXCEPT ![c] = n]
    BY <1>1, <1>2, <1>3, <2>1, <2>4 DEF Removed
  <2>6. /\ ~n.fd /\ n.listed = m.listed /\ n.up = m.up /\ n.wire = m.wire
        /\ n.buf = m.buf /\ n.size = m.size
        /\ n.sent = m.sent /\ n.done = m.done /\ n.got = m.got /\ n \in Connections(S)
    BY <1>3, <2>4 DEF Connections
  <2>7. /\ nc' \in [NetClients -> Connections(S)]
        /\ nc'[c] = n /\ \A d \in NetClients : d # c => nc'[d] = nc[d]
    BY <1>1, <1>3, <2>5, <2>6, OneChanged
  <2>8. /\ ns'.pc = "execute" /\ ns'.ready = ns.ready /\ ns'.who = c
        /\ ns'.cmds = <<>> /\ ns'.clean /\ ns' \in Servers
    BY <1>1, <1>2, <1>6, <2>1, <2>3 DEF Servers
  <2>9. NetTyped(S)'
    BY <1>2, <2>6, <2>7, <2>8 DEF NetInv, NetTyped
  <2>10. Rounds'
    BY <1>1, <1>2, <2>6, <2>7, <2>8 DEF NetInv, Rounds
  <2>11. \A d \in NetClients : Unserved(d)' = <<>> /\ ~Now(d)'
    BY <2>8 DEF Unserved, Now
  <2>12. Exact(c)'
    <3>1. Taken(<<>>, m.sent, Len(m.done))
      <4>1. Len(<<>>) = 0 /\ Len(m.done) + 0 <= Len(m.sent)
        BY <1>3, <2>2
      <4> QED BY <4>1 DEF Taken
    <3> QED BY <1>3, <1>7, <2>6, <2>7, <2>11, <3>1 DEF Exact
  <2>13. Answered(c)'
    <3>1. /\ nc'[c].got = nc[c].got /\ nc'[c].done = nc[c].done
          /\ (nc'[c].fd => nc[c].fd) /\ (nc'[c].up => nc[c].up)
      BY <1>2, <2>6, <2>7
    <3>2. ~Now(c) /\ ~Now(c)'
      BY <1>3, <1>4, <2>11
    <3> QED BY <1>5, <3>1, <3>2, AnsweredKept
  <2>14. Flow(c)'
    BY <2>6, <2>7 DEF Flow
  <2>15. ASSUME NEW d \in NetClients, d # c PROVE Client(d)'
    <3>1. nc'[d] = nc[d] /\ Unserved(d)' = Unserved(d) /\ (Now(d)' <=> Now(d)) /\ ~Now(d)
      BY <1>4, <2>7, <2>11, <2>15
    <3> QED BY <3>1, ClientSame DEF NetInv
  <2> QED BY <1>3, <2>9, <2>10, <2>12, <2>13, <2>14, <2>15 DEF NetInv, Client
<1>9. CASE ~(l # <<>> /\ l[1] = Quit)
  <2>1. /\ nc' = [nc EXCEPT ![c].done = Append(@, l)]
        /\ ns' = [ns EXCEPT !.pc = "answer", !.left = NetWrites]
    BY <1>2, <1>9 DEF Execute
  <2>2. PICK done : done = Append(m.done, l)
    OBVIOUS
  <2>3. PICK n : n = [m EXCEPT !.done = done]
    OBVIOUS
  <2>4. nc' = [nc EXCEPT ![c] = n]
    BY <1>1, <1>2, <1>3, <2>1, <2>2, <2>3
  <2>5. /\ done \in Seq(Texts) /\ Len(done) = Len(m.done) + 1 /\ done # <<>>
        /\ done[Len(m.done) + 1] = l
        /\ \A i \in 1..Len(m.done) : done[i] = m.done[i]
    BY <1>3, <1>6, <2>2
  <2>6. /\ n.fd = m.fd /\ n.listed = m.listed /\ n.up = m.up /\ n.wire = m.wire
        /\ n.buf = m.buf /\ n.size = m.size
        /\ n.sent = m.sent /\ n.done = done /\ n.got = m.got /\ n \in Connections(S)
    BY <1>3, <2>3, <2>5 DEF Connections
  <2>7. /\ nc' \in [NetClients -> Connections(S)]
        /\ nc'[c] = n /\ \A d \in NetClients : d # c => nc'[d] = nc[d]
    BY <1>1, <1>3, <2>4, <2>6, OneChanged
  <2>8. /\ ns'.pc = "answer" /\ ns'.ready = ns.ready /\ ns'.who = c
        /\ ns'.cmds = ns.cmds /\ ns'.clean = ns.clean /\ ns'.left = NetWrites /\ ns' \in Servers
    <3>1. NetWrites \in Nat
      BY DEF NetAssumption
    <3> QED BY <1>1, <1>2, <2>1, <3>1 DEF Servers
  <2>9. NetTyped(S)'
    BY <1>2, <2>6, <2>7, <2>8 DEF NetInv, NetTyped
  <2>10. Rounds'
    BY <1>1, <1>2, <2>6, <2>7, <2>8 DEF NetInv, Rounds
  <2>11. /\ Unserved(c)' = Tail(ns.cmds) /\ Now(c)'
         /\ \A d \in NetClients : d # c => Unserved(d)' = <<>> /\ ~Now(d)'
    BY <2>8 DEF Unserved, Now
  <2>12. Exact(c)'
    <3>1. Taken(done, m.sent, 0)
      <4>1. 0 + Len(done) <= Len(m.sent)
        BY <1>3, <1>6, <2>5
      <4>2. \A i \in 1..Len(done) : i \in 1..Len(m.done) \/ i = Len(m.done) + 1
        BY <1>3, <2>5
      <4>3. \A i \in 1..Len(m.done) : 0 + i = i
        OBVIOUS
      <4>4. 0 + (Len(m.done) + 1) = Len(m.done) + 1
        BY <1>3
      <4> QED BY <1>6, <1>7, <2>5, <4>1, <4>2, <4>3, <4>4 DEF Taken
    <3> QED BY <1>6, <1>7, <2>5, <2>6, <2>7, <2>11, <3>1 DEF Exact
  <2>13. Answered(c)'
    <3>1. ~Now(c) /\ ~Begun(c)
      BY <1>1, <1>2 DEF Now, Begun, Execute
    <3>2. PICK g \in Nat, d \in Nat : g = Len(m.got) /\ d = Len(m.done)
      BY <1>3 DEF Connections
    <3>3. /\ g <= d /\ (\A i \in 1..g : m.got[i].line = m.done[i])
          /\ \A i \in 1..g - 1 : Whole(m.got[i])
      BY <1>2, <1>5, <3>2 DEF Answered, Replied
    <3>4. m.fd /\ m.up => g = d - 0
      BY <1>2, <1>5, <3>1, <3>2 DEF Answered
    <3>5. m.up /\ m.got # <<>> =>
            m.got[Len(m.got)].part + m.got[Len(m.got)].again = NetWrites - 0
      BY <1>2, <1>5, <3>1 DEF Answered
    <3>6. Replied(m.got, done)
      <4>1. Len(done) = d + 1 /\ \A i \in 1..g : i \in 1..d
        BY <2>5, <3>2, <3>3
      <4>2. \A i \in 1..g : m.got[i].line = done[i]
        BY <2>5, <3>2, <3>3, <4>1
      <4>3. Len(m.got) <= Len(done)
        BY <3>2, <3>3, <4>1
      <4> QED BY <3>2, <3>3, <4>2, <4>3 DEF Replied
    <3>7. /\ nc'[c].done = done /\ nc'[c].got = m.got
          /\ nc'[c].fd = m.fd /\ nc'[c].up = m.up
      BY <2>6, <2>7
    <3>8. Len(done) = d + 1 /\ done[Len(done)] = Head(ns'.cmds) /\ done # <<>>
      BY <1>2, <2>5, <2>8, <3>2
    <3>9. Now(c)' /\ ~Begun(c)' /\ ns'.left = NetWrites /\ NetWrites \in 1..NetWrites
      BY <2>8, <2>11 DEF Begun, NetAssumption
    <3>10. m.fd /\ m.up => Len(m.got) = Len(done) - 1
      BY <3>2, <3>4, <3>8
    <3> QED BY <3>5, <3>6, <3>7, <3>8, <3>9, <3>10 DEF Answered
  <2>14. Flow(c)'
    <3>1. Len(done) + Len(Tail(ns.cmds)) = Len(m.done) + Len(ns.cmds)
      <4>1. PICK d \in Nat, k \in Nat : d = Len(m.done) /\ k = Len(ns.cmds)
        BY <1>3, <1>6
      <4>2. Len(done) = d + 1 /\ Len(Tail(ns.cmds)) = k - 1
        BY <1>6, <2>5, <4>1
      <4>3. (d + 1) + (k - 1) = d + k
        OBVIOUS
      <4> QED BY <4>1, <4>2, <4>3
    <3>2. ASSUME m.fd PROVE \E off : Stream(off, n, Len(done) + Len(Tail(ns.cmds)))
      <4>1. PICK off : Stream(off, m, Len(m.done) + Len(ns.cmds))
        BY <1>2, <1>4, <1>5, <3>2 DEF Flow
      <4> QED BY <2>6, <3>1, <4>1 DEF Stream
    <3> QED BY <2>6, <2>7, <2>11, <3>2 DEF Flow
  <2>15. ASSUME NEW d \in NetClients, d # c PROVE Client(d)'
    <3>1. nc'[d] = nc[d] /\ Unserved(d)' = Unserved(d) /\ (Now(d)' <=> Now(d)) /\ ~Now(d)
      BY <1>4, <2>7, <2>11, <2>15
    <3> QED BY <3>1, ClientSame DEF NetInv
  <2> QED BY <1>3, <2>9, <2>10, <2>12, <2>13, <2>14, <2>15 DEF NetInv, Client
<1> QED BY <1>8, <1>9

\* What the client has got when a part more of the last answer has been written.
Writing(old, done, a, k, got, g, d) ==
  /\ old \in Seq(Replies) /\ done \in Seq(Texts) /\ a \in Texts
  /\ g \in Nat /\ d \in Nat /\ g = Len(old) /\ d = Len(done) /\ g <= d
  /\ got = Written(old, a, k) /\ done # <<>> /\ done[d] = a
  /\ \A i \in 1..g : old[i].line = done[i]
  /\ \A i \in 1..g - 1 : Whole(old[i])
  /\ ns.left \in 1..NetWrites /\ k \in 1..ns.left
  /\ g = d - (IF ns.left = NetWrites THEN 1 ELSE 0)
  /\ old # <<>> =>
       old[g].part + old[g].again = NetWrites - (IF ns.left # NetWrites THEN ns.left ELSE 0)
LEMMA WrittenOn ==
  ASSUME NetAssumption, NEW old, NEW done, NEW a, NEW k, NEW got, NEW g, NEW d,
         Writing(old, done, a, k, got, g, d)
  PROVE  /\ got \in Seq(Replies) /\ Replied(got, done) /\ Len(got) = d
         /\ got[d].part + got[d].again = NetWrites - (ns.left - k)
<1> USE DEF Writing
<1>1. k \in Nat /\ NetWrites \in Nat /\ ns.left \in Nat /\ k <= ns.left /\ d > 0
  <2>1. d > 0
    OBVIOUS
  <2> QED BY <2>1 DEF NetAssumption
<1>2. CASE ns.left = NetWrites
  <2>1. PICK e : e = [line |-> a, part |-> k, again |-> 0]
    OBVIOUS
  <2>2. e \in Replies /\ e.line = a /\ e.part + e.again = NetWrites - (ns.left - k)
    BY <1>1, <1>2, <2>1 DEF Replies
  <2>3. got = Append(old, e) /\ d = g + 1
    BY <1>1, <1>2, <2>1 DEF Written
  <2>4. /\ got \in Seq(Replies) /\ Len(got) = d /\ got[d] = e
        /\ \A i \in 1..g : got[i] = old[i]
    BY ONLY <2>2, <2>3, old \in Seq(Replies), g = Len(old), g \in Nat
  <2>5. ASSUME NEW i \in 1..d PROVE got[i].line = done[i]
    <3>1. i \in 1..g \/ i = d
      BY <2>3
    <3> QED BY <2>2, <2>4, <3>1
  <2>6. ASSUME NEW i \in 1..d - 1 PROVE Whole(got[i])
    <3>1. i \in 1..g /\ (i \in 1..g - 1 \/ i = g)
      <4>1. d = g + 1
        BY <2>3
      <4> QED BY ONLY <4>1, g \in Nat, i \in 1..d - 1
    <3>2. i = g => old # <<>> /\ old[i].part + old[i].again = NetWrites - 0
      <4>1. i = g => old # <<>>
        BY ONLY <3>1, g = Len(old), Len(<<>>) = 0
      <4> QED BY <1>2, <4>1
    <3>3. Whole(old[i])
      BY <1>1, <3>1, <3>2 DEF Whole
    <3> QED BY <2>4, <3>1, <3>3 DEF Whole
  <2> QED BY <2>2, <2>4, <2>5, <2>6 DEF Replied
<1>3. CASE ns.left # NetWrites
  <2>1. g = d
    BY <1>3
  <2>11. g \in 1..g
    BY <1>1, <2>1
  <2>12. old # <<>>
    BY ONLY <2>11, g = Len(old), Len(<<>>) = 0, g \in Nat
  <2>2. PICK o : o = old[g]
    OBVIOUS
  <2>3. /\ o \in Replies /\ o.line = a /\ o.part \in Nat /\ o.again \in Nat
        /\ o.part + o.again = NetWrites - ns.left
    <3>1. o \in Replies
      BY ONLY <2>2, <2>11, g = Len(old), old \in Seq(Replies)
    <3>2. o.line = a
      BY <2>1, <2>2, <2>11
    <3>3. o.part + o.again = NetWrites - ns.left
      BY <1>3, <2>2, <2>12
    <3> QED BY <3>1, <3>2, <3>3 DEF Replies
  <2>4. PICK e : e = [o EXCEPT !.again = @ + k]
    OBVIOUS
  <2>5. e \in Replies /\ e.line = a /\ e.part = o.part /\ e.again = o.again + k
    <3>1. PICK p \in Nat, q \in Nat : p = o.part /\ q = o.again
      BY <2>3
    <3>2. q + k \in Nat
      BY <1>1
    <3>3. e = [o EXCEPT !.again = q + k]
      BY <2>4, <3>1
    <3> QED BY ONLY <2>3, <3>1, <3>2, <3>3 DEF Replies
  <2>6. e.part + e.again = NetWrites - (ns.left - k)
    <3>1. PICK p \in Nat, q \in Nat, l \in Nat, w \in Nat :
            p = o.part /\ q = o.again /\ l = ns.left /\ w = NetWrites
      BY <1>1, <2>3
    <3>2. p + q = w - l
      BY <2>3, <3>1
    <3>3. p + (q + k) = w - (l - k)
      BY ONLY <3>2, <1>1, p \in Nat, q \in Nat, l \in Nat, w \in Nat
    <3> QED BY <2>5, <3>1, <3>3
  <2>7. got = [old EXCEPT ![g] = e]
    BY <1>3, <2>2, <2>4 DEF Written
  <2>8. /\ got \in Seq(Replies) /\ Len(got) = d /\ got[d] = e
        /\ \A i \in 1..g : i # g => got[i] = old[i]
    BY ONLY <2>1, <2>11, <2>5, <2>7, old \in Seq(Replies), g = Len(old), g \in Nat
  <2>9. ASSUME NEW i \in 1..d PROVE got[i].line = done[i]
    BY <2>1, <2>5, <2>8
  <2>10. ASSUME NEW i \in 1..d - 1 PROVE Whole(got[i])
    <3>1. i \in 1..g /\ i # g /\ i \in 1..g - 1
      BY <2>1
    <3> QED BY <2>8, <3>1
  <2> QED BY <2>6, <2>8, <2>9, <2>10 DEF Replied
<1> QED BY <1>2, <1>3

\* The answer to a line is written, or the client has gone.
LEMMA AnswerKeeps ==
  ASSUME NEW S, NetAssumption, PlainLines, NetInv(S), Answer
  PROVE  NetInv(S)'
<1>1. /\ ns \in Servers /\ nc \in [NetClients -> Connections(S)] /\ ns.pc = "answer"
      /\ ns.cmds # <<>> /\ ns.who \in NetClients \ ns.ready /\ ns.cmds \in Seq(Texts)
      /\ ns.left \in Nat
  BY DEF NetInv, NetTyped, Answer, Rounds, Servers
<1>2. PICK c, a, m, t : c = ns.who /\ a = Head(ns.cmds) /\ m = nc[c] /\ t = Tail(ns.cmds)
  OBVIOUS
<1>3. c \in NetClients /\ m \in Connections(S) /\ a \in Texts /\ t \in Seq(Texts)
  BY <1>1, <1>2
<1>4. /\ Unserved(c) = t /\ Now(c)
      /\ \A d \in NetClients : d # c => ~Now(d) /\ Unserved(d) = <<>>
  BY <1>1, <1>2 DEF Unserved, Now
<1>5. Exact(c) /\ Answered(c) /\ Flow(c)
  BY <1>3 DEF NetInv, Client
<1>6. /\ m.got \in Seq(Replies) /\ m.done \in Seq(Texts)
      /\ Len(m.got) \in Nat /\ Len(m.done) \in Nat
  <2>1. m.got \in Seq(Replies) /\ m.done \in Seq(Texts)
    BY <1>3 DEF Connections
  <2> QED BY <2>1
<1>7. PICK g \in Nat, d \in Nat : g = Len(m.got) /\ d = Len(m.done)
  BY <1>6
<1>10. /\ g <= d /\ (\A i \in 1..g : m.got[i].line = m.done[i])
      /\ \A i \in 1..g - 1 : Whole(m.got[i])
  BY <1>2, <1>5, <1>7 DEF Answered, Replied
<1>11. m.done # <<>> /\ m.done[d] = a /\ ns.left \in 1..NetWrites /\ (Begun(c) => m.fd)
  BY <1>2, <1>4, <1>5, <1>7 DEF Answered
<1>12. m.fd /\ m.up => g = d - (IF ~Begun(c) THEN 1 ELSE 0)
  BY <1>2, <1>4, <1>5, <1>7 DEF Answered
<1>13. m.up /\ m.got # <<>> =>
         m.got[g].part + m.got[g].again = NetWrites - (IF Begun(c) THEN ns.left ELSE 0)
  BY <1>2, <1>5, <1>7 DEF Answered
<1>14. Begun(c) <=> ns.left # NetWrites
  BY <1>4 DEF Begun
<1>8. CASE ~m.fd \/ ~m.up
  <2>1. /\ nc' = Removed(nc, c)
        /\ ns' = [ns EXCEPT !.clean = TRUE, !.pc = "execute", !.cmds = t]
    BY <1>2, <1>8 DEF Answer
  <2>2. PICK n : n = [m EXCEPT !.fd = FALSE]
    OBVIOUS
  <2>3. nc' = [nc EXCEPT ![c] = n]
    BY <1>1, <1>2, <1>3, <2>1, <2>2 DEF Removed
  <2>4. /\ ~n.fd /\ n.listed = m.listed /\ n.up = m.up /\ n.wire = m.wire
        /\ n.buf = m.buf /\ n.size = m.size
        /\ n.sent = m.sent /\ n.done = m.done /\ n.got = m.got /\ n \in Connections(S)
    BY <1>3, <2>2 DEF Connections
  <2>5. /\ nc' \in [NetClients -> Connections(S)]
        /\ nc'[c] = n /\ \A e \in NetClients : e # c => nc'[e] = nc[e]
    BY <1>1, <1>3, <2>3, <2>4, OneChanged
  <2>6. /\ ns'.pc = "execute" /\ ns'.ready = ns.ready /\ ns'.who = c
        /\ ns'.cmds = t /\ ns'.clean /\ ns' \in Servers
    BY <1>1, <1>2, <1>3, <2>1 DEF Servers
  <2>7. NetTyped(S)'
    BY <1>2, <2>4, <2>5, <2>6 DEF NetInv, NetTyped
  <2>8. Rounds'
    BY <1>1, <1>2, <2>4, <2>5, <2>6 DEF NetInv, Rounds
  <2>9. /\ Unserved(c)' = t
        /\ \A e \in NetClients : ~Now(e)' /\ (e # c => Unserved(e)' = <<>>)
    BY <2>6 DEF Unserved, Now
  <2>10. Exact(c)'
    BY <1>2, <1>4, <1>5, <2>4, <2>5, <2>9 DEF Exact
  <2>11. Answered(c)'
    <3>1. /\ nc'[c].got = m.got /\ nc'[c].done = m.done /\ ~nc'[c].fd /\ ~Now(c)' /\ ~Begun(c)'
          /\ nc'[c].up = m.up
      BY <1>3, <2>4, <2>5, <2>9 DEF Begun
    <3>2. Replied(m.got, m.done)
      BY <1>2, <1>5 DEF Answered
    <3>3. m.up /\ m.got # <<>> =>
            m.got[Len(m.got)].part + m.got[Len(m.got)].again = NetWrites - 0
      BY <1>7, <1>8, <1>11, <1>13
    <3> QED BY <3>1, <3>2, <3>3 DEF Answered
  <2>12. Flow(c)'
    BY <2>4, <2>5 DEF Flow
  <2>13. ASSUME NEW e \in NetClients, e # c PROVE Client(e)'
    <3>1. nc'[e] = nc[e] /\ Unserved(e)' = Unserved(e) /\ (Now(e)' <=> Now(e)) /\ ~Now(e)
      BY <1>4, <2>5, <2>9, <2>13
    <3> QED BY <3>1, ClientSame DEF NetInv
  <2> QED BY <1>3, <2>7, <2>8, <2>10, <2>11, <2>12, <2>13 DEF NetInv, Client
<1>9. CASE m.fd /\ m.up
  <2>1. PICK k \in 1 .. ns.left :
          /\ nc' = [nc EXCEPT ![c].got = Written(@, a, k)]
          /\ ns' = IF k = ns.left
                   THEN [ns EXCEPT !.pc = "execute", !.cmds = t]
                   ELSE [ns EXCEPT !.left = @ - k]
    BY <1>2, <1>9 DEF Answer
  <2>2. PICK got : got = Written(m.got, a, k)
    OBVIOUS
  <2>3. got \in Seq(Replies) /\ Replied(got, m.done) /\ Len(got) = d
        /\ got[d].part + got[d].again = NetWrites - (ns.left - k)
    <3>1. PICK old, done : old = m.got /\ done = m.done
      OBVIOUS
    <3>2. old \in Seq(Replies) /\ done \in Seq(Texts)
      BY <1>6, <3>1
    <3>3. g = d - (IF ns.left = NetWrites THEN 1 ELSE 0)
      BY <1>9, <1>12, <1>14
    <3>4. old # <<>> => old[g].part + old[g].again
                          = NetWrites - (IF ns.left # NetWrites THEN ns.left ELSE 0)
      BY <1>9, <1>13, <1>14, <3>1
    <3>5. /\ g = Len(old) /\ d = Len(done) /\ got = Written(old, a, k)
          /\ done # <<>> /\ done[d] = a /\ g <= d /\ ns.left \in 1..NetWrites
          /\ (\A i \in 1..g : old[i].line = done[i]) /\ \A i \in 1..g - 1 : Whole(old[i])
      BY <1>7, <1>10, <1>11, <2>2, <3>1
    <3>6. got \in Seq(Replies) /\ Replied(got, done) /\ Len(got) = d
          /\ got[d].part + got[d].again = NetWrites - (ns.left - k)
      <4>1. Writing(old, done, a, k, got, g, d)
        BY ONLY <1>3, <1>7, <2>1, <3>2, <3>3, <3>4, <3>5 DEF Writing
      <4> QED BY <4>1, WrittenOn
    <3> QED BY <3>1, <3>6
  <2>4. PICK n : n = [m EXCEPT !.got = got]
    OBVIOUS
  <2>5. nc' = [nc EXCEPT ![c] = n]
    BY <1>1, <1>2, <1>3, <2>1, <2>2, <2>4
  <2>6. /\ n.fd = m.fd /\ n.listed = m.listed /\ n.up = m.up /\ n.wire = m.wire
        /\ n.buf = m.buf /\ n.size = m.size
        /\ n.sent = m.sent /\ n.done = m.done /\ n.got = got /\ n \in Connections(S)
    BY <1>3, <2>3, <2>4 DEF Connections
  <2>7. /\ nc' \in [NetClients -> Connections(S)]
        /\ nc'[c] = n /\ \A e \in NetClients : e # c => nc'[e] = nc[e]
    BY <1>1, <1>3, <2>5, <2>6, OneChanged
  <2>8. /\ ns'.ready = ns.ready /\ ns'.who = c /\ ns'.clean = ns.clean /\ ns' \in Servers
        /\ \/ k = ns.left /\ ns'.pc = "execute" /\ ns'.cmds = t
           \/ k # ns.left /\ ns'.pc = "answer" /\ ns'.cmds = ns.cmds
    <3>1. CASE k = ns.left
      <4>1. ns' = [ns EXCEPT !.pc = "execute", !.cmds = t]
        BY <2>1, <3>1
      <4> QED BY <1>1, <1>2, <1>3, <3>1, <4>1 DEF Servers
    <3>2. CASE k # ns.left
      <4>1. ns' = [ns EXCEPT !.left = @ - k]
        BY <2>1, <3>2
      <4>2. ns.left - k \in Nat
        BY <1>1
      <4> QED BY <1>1, <1>2, <1>3, <3>2, <4>1, <4>2 DEF Servers
    <3> QED BY <3>1, <3>2
  <2>9. NetTyped(S)'
    BY <1>2, <2>6, <2>7, <2>8 DEF NetInv, NetTyped
  <2>10. Rounds'
    BY <1>1, <1>2, <2>6, <2>7, <2>8 DEF NetInv, Rounds
  <2>11. /\ Unserved(c)' = t /\ (Now(c)' <=> k # ns.left)
         /\ \A e \in NetClients : e # c => ~Now(e)' /\ Unserved(e)' = <<>>
    BY <1>2, <2>8 DEF Unserved, Now
  <2>12. Exact(c)'
    BY <1>2, <1>4, <1>5, <2>6, <2>7, <2>11, SMTT(30) DEF Exact
  <2>13. Answered(c)'
    <3>1. /\ nc'[c].got = got /\ nc'[c].done = m.done /\ nc'[c].fd
      BY <1>9, <2>6, <2>7
    <3>2. CASE k = ns.left
      <4>1. ~Now(c)' /\ ~Begun(c)'
        BY <2>11, <3>2 DEF Begun
      <4>2. NetWrites - (ns.left - k) = NetWrites - 0 /\ d = d - 0
        BY <1>1, <3>2 DEF NetAssumption
      <4> QED BY <1>7, <2>3, <3>1, <4>1, <4>2 DEF Answered
    <3>3. CASE k # ns.left
      <4>1. ns' = [ns EXCEPT !.left = @ - k]
        BY <2>1, <3>3
      <4>2. ns'.left = ns.left - k /\ ns'.cmds = ns.cmds
        BY <1>1, <4>1 DEF Servers
      <4>3. ns.left - k \in 1..NetWrites /\ ns.left - k # NetWrites /\ d = d - 0
        BY <1>1, <1>11, <3>3 DEF NetAssumption
      <4>4. Now(c)' /\ Begun(c)'
        BY <2>11, <3>3, <4>2, <4>3 DEF Begun
      <4> QED BY <1>2, <1>7, <1>11, <2>3, <3>1, <4>2, <4>3, <4>4 DEF Answered
    <3> QED BY <3>2, <3>3
  <2>14. Flow(c)'
    <3>1. ASSUME m.fd PROVE \E off : Stream(off, n, Len(m.done) + Len(t))
      <4>1. PICK off : Stream(off, m, Len(m.done) + Len(t))
        BY <1>2, <1>4, <1>5, <3>1 DEF Flow
      <4> QED BY <2>6, <4>1 DEF Stream
    <3> QED BY <2>6, <2>7, <2>11, <3>1 DEF Flow
  <2>15. ASSUME NEW e \in NetClients, e # c PROVE Client(e)'
    <3>1. nc'[e] = nc[e] /\ Unserved(e)' = Unserved(e) /\ (Now(e)' <=> Now(e)) /\ ~Now(e)
      BY <1>4, <2>7, <2>11, <2>15
    <3> QED BY <3>1, ClientSame DEF NetInv
  <2> QED BY <1>3, <2>9, <2>10, <2>12, <2>13, <2>14, <2>15 DEF NetInv, Client
<1> QED BY <1>8, <1>9

-----------------------------------------------------------------------------
(* The theorems.                                                           *)

\* No client is connected.
LEMMA NetInitInv ==
  ASSUME NEW S, Buffers(S), NetAssumption, NetInit
  PROVE  NetInv(S)
<1>1. /\ <<>> \in Texts /\ NetFirstBuffer \in S /\ <<>> \in Seq(NetLines)
      /\ <<>> \in Seq(Texts) /\ <<>> \in Seq(Replies)
  BY DEF Texts, Buffers
<1>2. NoClient \in Connections(S)
  BY <1>1 DEF NoClient, Connections
<1>3. ns = [pc |-> "poll", ready |-> {}, who |-> "", cmds |-> <<>>,
           left |-> 0, clean |-> FALSE, exit |-> FALSE, turns |-> 0]
  BY DEF NetInit
<1>4. \A c \in NetClients :
        /\ nc[c] = NoClient /\ ~nc[c].fd /\ ~nc[c].listed /\ ~nc[c].up
        /\ nc[c].buf = <<>> /\ nc[c].size = NetFirstBuffer
        /\ nc[c].sent = <<>> /\ nc[c].done = <<>> /\ nc[c].got = <<>>
  BY DEF NetInit, NoClient
<1>5. NetTyped(S)
  <2>1. nc \in [NetClients -> Connections(S)]
    BY <1>2 DEF NetInit
  <2>2. ns \in Servers
    BY <1>1, <1>3 DEF Servers
  <2>3. \A c \in NetClients : Len(nc[c].buf) <= nc[c].size
    <3>1. NetFirstBuffer \in Nat /\ Len(<<>>) = 0
      BY DEF NetAssumption
    <3>2. 0 <= NetFirstBuffer
      BY <3>1
    <3> QED BY <1>4, <3>1, <3>2
  <2> QED BY <2>1, <2>2, <2>3 DEF NetTyped
<1>6. Rounds
  BY <1>3, <1>4 DEF Rounds
<1>7. ASSUME NEW c \in NetClients PROVE Client(c)
  <2>1. Unserved(c) = <<>> /\ ~Now(c)
    BY <1>3 DEF Unserved, Now
  <2>2. Exact(c)
    BY <1>4, <2>1 DEF Exact, Taken
  <2>3. Answered(c)
    <3>1. nc[c].got = <<>> /\ nc[c].done = <<>> /\ ~nc[c].fd
      BY <1>4
    <3>2. Replied(<<>>, <<>>) /\ ~Begun(c)
      BY <2>1 DEF Replied, Begun
    <3> QED BY <2>1, <3>1, <3>2 DEF Answered
  <2>4. Flow(c)
    BY <1>4 DEF Flow
  <2> QED BY <2>2, <2>3, <2>4 DEF Client
<1> QED BY <1>5, <1>6, <1>7 DEF NetInv

\* Every step keeps the invariant.
LEMMA NetNextInv ==
  ASSUME NEW S, Buffers(S), NetAssumption, PlainLines, ~NetAfterQuit,
         NetInv(S), [NetNext]_netVars
  PROVE  NetInv(S)'
<1>1. CASE Poll
  BY <1>1, PollNetKeeps
<1>2. CASE Read
  BY <1>2, ReadNetKeeps
<1>3. CASE Execute
  BY <1>3, ExecuteNetKeeps
<1>4. CASE Answer
  BY <1>4, AnswerKeeps
<1>5. CASE Served
  BY <1>5, ServedKeeps
<1>6. CASE CleanClients
  BY <1>6, CleanKeeps
<1>7. CASE NetExit
  BY <1>7, NetExitKeeps
<1>8. CASE \E c \in NetClients : Connect(c) \/ Send(c) \/ HangUp(c)
  <2>1. PICK c \in NetClients : Connect(c) \/ Send(c) \/ HangUp(c)
    BY <1>8
  <2> QED BY <2>1, ConnectKeeps, SendNetKeeps, HangUpKeeps
<1>9. CASE UNCHANGED netVars
  <2>1. nc' = nc /\ ns' = ns
    BY <1>9 DEF netVars
  <2>2. ns' \in Servers
    BY <2>1 DEF NetInv, NetTyped
  <2>3. Rounds'
    BY <2>1 DEF NetInv, Rounds
  <2>4. \A d : Unserved(d)' = Unserved(d) /\ (Now(d)' <=> Now(d))
    BY <2>1 DEF Unserved, Now
  <2> QED BY <2>1, <2>2, <2>3, <2>4, NoneChanged
<1> QED BY <1>1, <1>2, <1>3, <1>4, <1>5, <1>6, <1>7, <1>8, <1>9 DEF NetNext, NetServer

\* What the invariant says of the types.
LEMMA ServerTypes ==
  ASSUME NEW CONSTANT S, Buffers(S)
  PROVE  NetInv(S) => NetTypeOK
<1> SUFFICES ASSUME NetInv(S) PROVE NetTypeOK
  OBVIOUS
<1>1. nc \in [NetClients -> Connections(S)] /\ ns \in Servers
      /\ \A c \in NetClients : Len(nc[c].buf) <= nc[c].size
  BY DEF NetInv, NetTyped
<1>2. ns.pc \in {"poll", "serve", "execute", "answer", "gone"} /\ ns.ready \subseteq NetClients
  BY <1>1 DEF Servers
<1>3. \A c \in NetClients : nc[c].size \in NetFirstBuffer .. NetMaxBuffer
  BY <1>1 DEF Connections, Buffers
<1>4. \A c \in NetClients : nc[c].fd => nc[c].listed
  BY DEF NetInv, Rounds
<1> QED BY <1>1, <1>2, <1>3, <1>4 DEF NetTypeOK

\* The types of the network server's state: a connection's buffer grows only to the sizes
\* it may have and never holds more than it has room for, and a client that is connected is
\* in the list of clients.
THEOREM ServerTyped ==
  ASSUME NEW CONSTANT S, Buffers(S), PlainLines, ~NetAfterQuit
  PROVE  NetSpec => []NetTypeOK
<1>1. NetInit => NetInv(S)
  BY NetInitInv, NetAssumption
<1>2. NetInv(S) /\ [NetNext]_netVars => NetInv(S)'
  BY NetNextInv, NetAssumption
<1>3. NetInv(S) => NetTypeOK
  BY ServerTypes
<1> QED BY <1>1, <1>2, <1>3, PTL DEF NetSpec

\* What the invariant says of commands and answers.
LEMMA SessionKept ==
  ASSUME NEW CONSTANT S
  PROVE  NetInv(S) => SessionExact
<1> SUFFICES ASSUME NetInv(S), NEW c \in NetClients, NEW n, n = nc[c], NEW g, g = Len(n.got)
             PROVE  /\ Len(n.done) <= Len(n.sent)
                    /\ \A i \in DOMAIN n.done :
                         IsLine(n.done[i]) /\ Line(n.done[i]) = n.sent[i]
                    /\ g <= Len(n.done)
                    /\ \A i \in 1 .. g : n.got[i].line = n.done[i]
                    /\ \A i \in 1 .. g - 1 : Whole(n.got[i])
                    /\ g > 0 /\ n.up /\ ~(ns.pc = "answer" /\ ns.who = c) => Whole(n.got[g])
  BY DEF SessionExact
<1>1. n.done \in Seq(Texts) /\ n.got \in Seq(Replies) /\ n.sent \in Seq(NetLines)
  BY DEF NetInv, NetTyped, Connections
<1>2. Exact(c) /\ Answered(c)
  BY DEF NetInv, Client
<1>3. /\ 0 + Len(n.done) <= Len(n.sent)
      /\ \A i \in 1..Len(n.done) :
           IsLine(n.done[i]) /\ Line(n.done[i]) = n.sent[0 + i]
  BY <1>2 DEF Exact, Taken
<1>4. /\ DOMAIN n.done = 1..Len(n.done)
      /\ Len(n.done) \in Nat /\ \A i \in 1..Len(n.done) : 0 + i = i
      /\ 0 + Len(n.done) = Len(n.done)
  BY <1>1
<1>5. Replied(n.got, n.done)
  BY <1>2 DEF Answered
<1>6. ASSUME g > 0, n.up, ~(ns.pc = "answer" /\ ns.who = c) PROVE Whole(n.got[g])
  <2>1. ~Begun(c) /\ n.got # <<>>
    BY <1>1, <1>6 DEF Begun, Now
  <2>2. n.got[g].part + n.got[g].again = NetWrites - 0
    BY <1>2, <1>6, <2>1 DEF Answered
  <2> QED BY <2>2, NetAssumption DEF Whole, NetAssumption
<1> QED BY <1>3, <1>4, <1>5, <1>6 DEF Replied

\* What is executed for a client is what it has sent, line by line and in order, however
\* the network cuts the lines, whatever the other clients do, and however its buffer grows;
\* and what the client has read is one answer to each of its lines, in the same order and
\* of the length announced, in however many parts it is written.
THEOREM SessionAlwaysExact ==
  ASSUME NEW CONSTANT S, Buffers(S), PlainLines, ~NetAfterQuit
  PROVE  NetSpec => []SessionExact
<1>1. NetInit => NetInv(S)
  BY NetInitInv, NetAssumption
<1>2. NetInv(S) /\ [NetNext]_netVars => NetInv(S)'
  BY NetNextInv, NetAssumption
<1>3. NetInv(S) => SessionExact
  BY SessionKept
<1> QED BY <1>1, <1>2, <1>3, PTL DEF NetSpec
=============================================================================
