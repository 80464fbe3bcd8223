---------------------------- MODULE DataStreamProofs ----------------------------
(***************************************************************************)
(* However the network cuts a stream, what the decoder takes out of it is  *)
(* what the sender put into it.  The decoder is a recursive function: that *)
(* there is one, and what it returns, is proved by induction over the      *)
(* length of the buffer and over the chunks of a stream.                   *)
(***************************************************************************)
EXTENDS DataStream, TLAPS, WellFoundedInduction, SequenceTheorems

Bytes == Seq(Symbol)
EndOfChunk == <<"cr", "lf">>

-----------------------------------------------------------------------------
(* Induction, over sets instead of predicates.                             *)

LEMMA SetInduction ==
    ASSUME NEW S, 0 \in S, \A n \in Nat : n \in S => n + 1 \in S
    PROVE  Nat \subseteq S
<1> DEFINE R == OpToRel(<, Nat)
           T == {n \in Nat : n \notin S}
<1>1. SUFFICES ASSUME T # {} PROVE FALSE
  OBVIOUS
<1>2. \E x \in T : \A y \in T : <<y, x>> \notin R
  <2>1. IsWellFoundedOn(R, Nat)
    BY NatLessThanWellFounded
  <2> HIDE DEF R
  <2> QED
    BY <1>1, <2>1, WFMin
<1>3. PICK x \in T : \A y \in T : <<y, x>> \notin R
  BY <1>2
<1>4. x - 1 \in T
  <2> HIDE DEF R
  <2>1. x \in Nat /\ x \notin S
    BY <1>3
  <2>2. x # 0
    BY <2>1
  <2>3. x - 1 \in Nat /\ (x - 1) + 1 = x
    BY <2>1, <2>2
  <2> QED
    BY <2>1, <2>3
<1>5. <<x - 1, x>> \in R
  BY <1>3, <1>4 DEF OpToRel
<1> QED
  BY <1>3, <1>4, <1>5

\* The first of some positions.
LEMMA LeastOf ==
    ASSUME NEW S, S \subseteq Nat, S # {}
    PROVE  LET i == CHOOSE i \in S : \A j \in S : i <= j
           IN  i \in S /\ \A j \in S : i <= j
<1> DEFINE T == {n \in Nat : \A j \in S : n <= j}
<1>1. SUFFICES \E i \in S : \A j \in S : i <= j
  OBVIOUS
<1>2. SUFFICES ASSUME ~ \E i \in S : \A j \in S : i <= j PROVE FALSE
  OBVIOUS
<1>3. 0 \in T
  OBVIOUS
<1>4. \A n \in Nat : n \in T => n + 1 \in T
  <2> SUFFICES ASSUME NEW n \in Nat, n \in T, NEW j \in S PROVE n + 1 <= j
    OBVIOUS
  <2>1. n # j
    BY <1>2
  <2> QED
    BY <2>1
<1>5. Nat \subseteq T
  <2> HIDE DEF T
  <2> QED
    BY <1>3, <1>4, SetInduction
<1>6. PICK j \in S : TRUE
  OBVIOUS
<1>7. j + 1 \in T
  BY <1>5
<1> QED
  BY <1>7

-----------------------------------------------------------------------------
(* The decoder.                                                            *)

\* What publish_data_from_chunk does with a header, and after it, if f is what it
\* does when it calls itself.
Begun(d) == IF d.size = 0 THEN Header(d) ELSE d
After(f, e) ==
    IF ~e.ok \/ ~Complete(e) THEN e
    ELSE IF GoOn(Published(e)) THEN f[Published(e)] ELSE Published(e)

Short(n) == {d \in Decoder : Len(d.recv) < n}
Decodes(g, n) == g \in [Short(n) -> Decoder] /\ \A d \in Short(n) : g[d] = After(g, Begun(d))

\* The parts of a decoder and of a buffer.
LEMMA DecoderType ==
    ASSUME NEW d \in Decoder
    PROVE  /\ d.recv \in Bytes /\ d.size \in Nat /\ d.published \in Bytes /\ d.ok \in BOOLEAN
           /\ Len(d.recv) \in Nat /\ DOMAIN d.recv = 1 .. Len(d.recv)
BY LenProperties DEF Decoder, Bytes

LEMMA BytesFrom ==
    ASSUME NEW s \in Bytes, NEW n \in Nat \ {0}
    PROVE  /\ SubSeq(s, n, Len(s)) \in Bytes
           /\ Len(SubSeq(s, n, Len(s))) = IF n <= Len(s) THEN Len(s) - n + 1 ELSE 0
<1>1. Len(s) \in Nat /\ \A i \in n .. Len(s) : s[i] \in Symbol
  BY LenProperties, ElementOfSeq DEF Bytes
<1> QED
  BY <1>1, SubSeqProperties DEF Bytes

LEMMA BytesUpTo ==
    ASSUME NEW s \in Bytes, NEW n \in Int, n <= Len(s)
    PROVE  SubSeq(s, 1, n) \in Bytes /\ Len(SubSeq(s, 1, n)) = IF 1 <= n THEN n ELSE 0
<1>1. Len(s) \in Nat /\ 1 \in Int
  BY LenProperties DEF Bytes
<1>2. ASSUME NEW i \in 1 .. n PROVE s[i] \in Symbol
  BY <1>1, ElementOfSeq DEF Bytes
<1>3. PICK m : m = 1
  OBVIOUS
<1>4. m \in Int /\ \A i \in m .. n : s[i] \in Symbol
  BY <1>1, <1>2, <1>3
<1>5. SubSeq(s, m, n) \in Bytes /\ Len(SubSeq(s, m, n)) = IF m <= n THEN n - m + 1 ELSE 0
  BY <1>4, SubSeqProperties DEF Bytes
<1> QED
  BY <1>3, <1>5

LEMMA ScannedType == \A line \in Bytes : Scanned(line) \in Nat
BY StreamAssumption, LenProperties DEF Scanned, Bytes

\* What Header does if a line has arrived, and if none has.
LineEnds(d) == {i \in DOMAIN d.recv : d.recv[i] = "lf"}
LEMMA HeaderLine ==
    ASSUME NEW d \in Decoder, LineEnds(d) # {}
    PROVE  \E end \in LineEnds(d), last \in Int :
             /\ \A j \in LineEnds(d) : end <= j
             /\ last = IF end > 1 /\ d.recv[end - 1] = "cr" THEN end - 2 ELSE end - 1
             /\ Header(d) = [d EXCEPT !.size = Scanned(SubSeq(d.recv, 1, last)),
                                      !.recv = SubSeq(d.recv, end + 1, Len(d.recv))]
<1> DEFINE ends == {i \in DOMAIN d.recv : d.recv[i] = "lf"}
<1>1. ends = LineEnds(d) /\ LineEnds(d) \subseteq Nat
  BY DecoderType DEF LineEnds
<1>2. PICK end : end = CHOOSE i \in ends : \A j \in ends : i <= j
  OBVIOUS
<1>3. PICK last : last = IF end > 1 /\ d.recv[end - 1] = "cr" THEN end - 2 ELSE end - 1
  OBVIOUS
<1>4. Header(d) = [d EXCEPT !.size = Scanned(SubSeq(d.recv, 1, last)),
                            !.recv = SubSeq(d.recv, end + 1, Len(d.recv))]
  BY <1>1, <1>2, <1>3 DEF Header
<1> HIDE DEF ends
<1>5. end \in LineEnds(d) /\ \A j \in LineEnds(d) : end <= j
  BY <1>1, <1>2, LeastOf
<1>6. last \in Int
  BY <1>1, <1>3, <1>5
<1> QED
  BY <1>3, <1>4, <1>5, <1>6

LEMMA HeaderNoLine ==
    ASSUME NEW d \in Decoder, LineEnds(d) = {}
    PROVE  Header(d) = [d EXCEPT !.ok = FALSE]
BY DEF Header, LineEnds

LEMMA HeaderType ==
    ASSUME NEW d \in Decoder
    PROVE  /\ Header(d) \in Decoder /\ Len(Header(d).recv) <= Len(d.recv)
           /\ Header(d).published = d.published
<1>0. d.recv \in Bytes /\ Len(d.recv) \in Nat /\ DOMAIN d.recv = 1 .. Len(d.recv)
  BY DecoderType
<1>1. CASE LineEnds(d) = {}
  <2>1. Header(d) = [d EXCEPT !.ok = FALSE]
    BY <1>1, HeaderNoLine
  <2> QED
    <3>1. Header(d) = [recv |-> d.recv, size |-> d.size, published |-> d.published, ok |-> FALSE]
      BY <2>1 DEF Decoder
    <3>2. FALSE \in BOOLEAN
      OBVIOUS
    <3> QED
      BY <1>0, <3>1, <3>2, DecoderType DEF Decoder, Bytes
<1>2. CASE LineEnds(d) # {}
  <2>1. PICK end \in LineEnds(d), last \in Int :
          /\ last = IF end > 1 /\ d.recv[end - 1] = "cr" THEN end - 2 ELSE end - 1
          /\ Header(d) = [d EXCEPT !.size = Scanned(SubSeq(d.recv, 1, last)),
                                   !.recv = SubSeq(d.recv, end + 1, Len(d.recv))]
    BY <1>2, HeaderLine
  <2>2. /\ end \in 1 .. Len(d.recv) /\ end + 1 \in Nat \ {0}
        /\ last \in Int /\ last <= Len(d.recv)
    BY <1>0, <2>1 DEF LineEnds
  <2>3. PICK line : line = SubSeq(d.recv, 1, last)
    OBVIOUS
  <2>4. PICK rest : rest = SubSeq(d.recv, end + 1, Len(d.recv))
    OBVIOUS
  <2>5. line \in Bytes
    BY <1>0, <2>2, <2>3, BytesUpTo
  <2>6. rest \in Bytes /\ Len(rest) <= Len(d.recv)
    <3>1. PICK n \in Nat \ {0} : n = end + 1
      BY <2>2
    <3>2. /\ SubSeq(d.recv, n, Len(d.recv)) \in Bytes
          /\ Len(SubSeq(d.recv, n, Len(d.recv))) = IF n <= Len(d.recv) THEN Len(d.recv) - n + 1 ELSE 0
      BY <1>0, BytesFrom
    <3> QED
      BY <1>0, <2>4, <3>1, <3>2
  <2>7. Scanned(line) \in Nat
    BY <2>5, ScannedType
  <2>8. Header(d) = [d EXCEPT !.size = Scanned(line), !.recv = rest]
    BY <2>1, <2>3, <2>4
  <2> QED
    BY <2>6, <2>7, <2>8 DEF Decoder, Bytes
<1> QED
  BY <1>1, <1>2

LEMMA BegunType ==
    ASSUME NEW d \in Decoder
    PROVE  Begun(d) \in Decoder /\ Len(Begun(d).recv) <= Len(d.recv)
<1>1. Len(d.recv) \in Nat
  BY DecoderType
<1> QED
  BY <1>1, HeaderType DEF Begun

\* Taking out what is complete leaves less.
LEMMA PublishedType ==
    ASSUME NEW e \in Decoder, Complete(e)
    PROVE  Published(e) \in Decoder /\ Len(Published(e).recv) < Len(e.recv)
<1>1. e.recv \in Bytes /\ Len(e.recv) \in Nat /\ e.size \in Nat /\ e.size + 2 <= Len(e.recv)
      /\ e.published \in Bytes /\ e.ok \in BOOLEAN
  BY DecoderType DEF Complete
<1>2. PICK data : data = SubSeq(e.recv, 1, e.size)
  OBVIOUS
<1>3. PICK n \in Nat \ {0} : n = e.size + 3
  BY <1>1
<1>4. PICK rest : rest = SubSeq(e.recv, n, Len(e.recv))
  OBVIOUS
<1>5. data \in Bytes
  BY <1>1, <1>2, BytesUpTo
<1>6. rest \in Bytes /\ Len(rest) = IF n <= Len(e.recv) THEN Len(e.recv) - n + 1 ELSE 0
  BY <1>1, <1>4, BytesFrom
<1>7. Len(rest) < Len(e.recv)
  BY <1>1, <1>3, <1>6
<1>8. PICK all : all = e.published \o data
  OBVIOUS
<1>9. all \in Bytes
  BY <1>1, <1>5, <1>8, ConcatProperties DEF Bytes
<1>10. Published(e) = [recv |-> rest, size |-> 0, published |-> all, ok |-> e.ok]
  <2>1. Published(e) = [e EXCEPT !.published = all, !.recv = rest, !.size = 0]
    BY <1>2, <1>3, <1>4, <1>8 DEF Published
  <2> QED
    BY <2>1 DEF Decoder
<1>11. Published(e) \in Decoder
  BY <1>1, <1>6, <1>9, <1>10 DEF Decoder, Bytes
<1> QED
  BY <1>7, <1>10, <1>11

\* The decoder calls itself with less in the buffer.
LEMMA AfterLocal ==
    ASSUME NEW d \in Decoder, NEW g, NEW h, \A x \in Short(Len(d.recv)) : g[x] = h[x]
    PROVE  After(g, Begun(d)) = After(h, Begun(d))
<1>1. PICK e \in Decoder : e = Begun(d) /\ Len(e.recv) <= Len(d.recv)
  BY BegunType
<1>2. ASSUME Complete(e) PROVE g[Published(e)] = h[Published(e)]
  <2>1. Published(e) \in Decoder /\ Len(Published(e).recv) < Len(e.recv)
    BY <1>2, PublishedType
  <2>2. Len(d.recv) \in Nat /\ Len(e.recv) \in Nat /\ Len(Published(e).recv) \in Nat
    BY <2>1, DecoderType
  <2>3. Published(e) \in Short(Len(d.recv))
    BY <1>1, <2>1, <2>2 DEF Short
  <2> QED
    BY <2>3
<1> QED
  BY <1>1, <1>2 DEF After

LEMMA AfterType ==
    ASSUME NEW d \in Decoder, NEW g, \A x \in Short(Len(d.recv)) : g[x] \in Decoder
    PROVE  After(g, Begun(d)) \in Decoder
<1>1. PICK e \in Decoder : e = Begun(d) /\ Len(e.recv) <= Len(d.recv)
  BY BegunType
<1>2. ASSUME Complete(e) PROVE Published(e) \in Decoder /\ g[Published(e)] \in Decoder
  <2>1. Published(e) \in Decoder /\ Len(Published(e).recv) < Len(e.recv)
    BY <1>2, PublishedType
  <2>2. Len(d.recv) \in Nat /\ Len(e.recv) \in Nat /\ Len(Published(e).recv) \in Nat
    BY <2>1, DecoderType
  <2>3. Published(e) \in Short(Len(d.recv))
    BY <1>1, <2>1, <2>2 DEF Short
  <2> QED
    BY <2>1, <2>3
<1> QED
  BY <1>1, <1>2 DEF After

LEMMA ShortFacts ==
    /\ \A d \in Decoder, n \in Nat : d \in Short(n) <=> Len(d.recv) < n
    /\ \A m, n \in Nat : m <= n => Short(m) \subseteq Short(n)
    /\ Short(0) = {}
BY DecoderType DEF Short

\* The definition of the recursive function is one: there is such a function for
\* every length of the buffer, they agree, and so make one together.
LEMMA DecodesAgree ==
    ASSUME NEW m \in Nat, NEW k \in Nat, NEW g, NEW h, Decodes(g, m), Decodes(h, k)
    PROVE  \A d \in Decoder : Len(d.recv) < m /\ Len(d.recv) < k => g[d] = h[d]
<1> DEFINE S == {n \in Nat : \A d \in Short(n) : Len(d.recv) < m /\ Len(d.recv) < k => g[d] = h[d]}
<1>1. 0 \in S
  BY ShortFacts
<1>2. ASSUME NEW n \in Nat, n \in S PROVE n + 1 \in S
  <2>1. SUFFICES ASSUME NEW d \in Short(n + 1), Len(d.recv) < m, Len(d.recv) < k
                 PROVE  g[d] = h[d]
    BY <1>2
  <2>2. d \in Decoder /\ Len(d.recv) \in Nat /\ Len(d.recv) <= n
    BY <1>2, <2>1, DecoderType DEF Short
  <2>3. ASSUME NEW x \in Short(Len(d.recv)) PROVE g[x] = h[x]
    <3>1. x \in Decoder /\ Len(x.recv) \in Nat /\ Len(x.recv) < Len(d.recv)
      BY <2>3, DecoderType DEF Short
    <3>2. x \in Short(n) /\ Len(x.recv) < m /\ Len(x.recv) < k
      BY <1>2, <2>1, <2>2, <3>1 DEF Short
    <3> QED
      BY <1>2, <3>2
  <2>4. After(g, Begun(d)) = After(h, Begun(d))
    BY <2>2, <2>3, AfterLocal
  <2>5. d \in Short(m) /\ d \in Short(k)
    BY <2>1, <2>2 DEF Short
  <2> QED
    BY <2>4, <2>5 DEF Decodes
<1>3. Nat \subseteq S
  <2> HIDE DEF S
  <2> QED
    BY <1>1, <1>2, SetInduction
<1>4. ASSUME NEW d \in Decoder, Len(d.recv) < m, Len(d.recv) < k PROVE g[d] = h[d]
  <2>1. m \in S /\ d \in Short(m)
    BY <1>3, <1>4 DEF Short
  <2> QED
    BY <1>4, <2>1
<1> QED
  BY <1>4

LEMMA DecodesExist == \A n \in Nat : \E g : Decodes(g, n)
<1> DEFINE S == {n \in Nat : \E g : Decodes(g, n)}
<1>1. 0 \in S
  <2>1. Decodes([d \in Short(0) |-> d], 0)
    BY ShortFacts DEF Decodes
  <2> QED
    BY <2>1
<1>2. ASSUME NEW n \in Nat, n \in S PROVE n + 1 \in S
  <2>1. PICK g : Decodes(g, n)
    BY <1>2
  <2>2. PICK h : h = [d \in Short(n + 1) |-> After(g, Begun(d))]
    OBVIOUS
  <2>3. ASSUME NEW d \in Short(n + 1)
        PROVE  /\ d \in Decoder
               /\ \A x \in Short(Len(d.recv)) : x \in Short(n) /\ x \in Short(n + 1)
    BY <1>2, <2>3, DecoderType DEF Short
  <2>4. ASSUME NEW d \in Short(n + 1) PROVE After(g, Begun(d)) \in Decoder
    <3>1. \A x \in Short(Len(d.recv)) : g[x] \in Decoder
      BY <2>1, <2>3 DEF Decodes
    <3> QED
      BY <2>3, <3>1, AfterType
  <2>5. ASSUME NEW x \in Short(n), x \in Short(n + 1) PROVE h[x] = g[x]
    BY <2>1, <2>2, <2>5 DEF Decodes
  <2>6. ASSUME NEW d \in Short(n + 1) PROVE h[d] = After(h, Begun(d))
    <3>1. \A x \in Short(Len(d.recv)) : g[x] = h[x]
      BY <2>3, <2>5
    <3> QED
      BY <2>2, <2>3, <3>1, AfterLocal
  <2>7. Decodes(h, n + 1)
    BY <2>2, <2>4, <2>6 DEF Decodes
  <2> QED
    BY <1>2, <2>7
<1>3. Nat \subseteq S
  <2> HIDE DEF S
  <2> QED
    BY <1>1, <1>2, SetInduction
<1> QED
  BY <1>3

LEMMA DecoderUnfolds ==
    publish_data_from_chunk = [d \in Decoder |-> After(publish_data_from_chunk, Begun(d))]
<1> DEFINE G(n) == CHOOSE g : Decodes(g, n)
           f == [d \in Decoder |-> G(Len(d.recv) + 1)[d]]
<1>1. ASSUME NEW n \in Nat PROVE Decodes(G(n), n)
  BY DecodesExist
<1> HIDE DEF G
<1>2. ASSUME NEW d \in Decoder PROVE f[d] = After(f, Begun(d))
  <2>1. PICK n \in Nat : n = Len(d.recv)
    BY DecoderType
  <2>2. f[d] = G(n + 1)[d]
    BY <2>1
  <2>3. Decodes(G(n + 1), n + 1) /\ d \in Short(n + 1)
    BY <1>1, <2>1 DEF Short
  <2>4. G(n + 1)[d] = After(G(n + 1), Begun(d))
    BY <2>3 DEF Decodes
  <2>5. ASSUME NEW x \in Short(Len(d.recv)) PROVE G(n + 1)[x] = f[x]
    <3>1. PICK k \in Nat : k = Len(x.recv)
      BY <2>5, DecoderType DEF Short
    <3>2. x \in Decoder /\ k < n
      BY <2>1, <2>5, <3>1 DEF Short
    <3>3. f[x] = G(k + 1)[x]
      BY <3>1, <3>2
    <3>4. Decodes(G(k + 1), k + 1) /\ Decodes(G(n + 1), n + 1) /\ k + 1 \in Nat /\ n + 1 \in Nat
      BY <1>1
    <3>5. Len(x.recv) < k + 1 /\ Len(x.recv) < n + 1
      BY <3>1, <3>2
    <3> QED
      BY <3>2, <3>3, <3>4, <3>5, DecodesAgree
  <2>6. After(G(n + 1), Begun(d)) = After(f, Begun(d))
    <3> HIDE DEF f
    <3> QED
      BY <2>5, AfterLocal
  <2> QED
    BY <2>2, <2>4, <2>6
<1>3. f = [d \in Decoder |-> After(f, Begun(d))]
  <2>1. f = [d \in Decoder |-> f[d]]
    OBVIOUS
  <2> HIDE DEF f
  <2> QED
    BY <1>2, <2>1
<1> HIDE DEF f
<1>4. \E F : F = [d \in Decoder |-> After(F, Begun(d))]
  BY <1>3
<1> QED
  BY <1>4, Zenon DEF publish_data_from_chunk, After, Begun

LEMMA DecoderStep ==
    \A d \in Decoder : /\ publish_data_from_chunk[d] = After(publish_data_from_chunk, Begun(d))
                       /\ publish_data_from_chunk[d] \in Decoder
<1> DEFINE f == publish_data_from_chunk
           S == {n \in Nat : \A d \in Short(n) : f[d] \in Decoder}
<1>1. ASSUME NEW d \in Decoder PROVE f[d] = After(f, Begun(d))
  <2>1. f = [x \in Decoder |-> After(f, Begun(x))]
    BY DecoderUnfolds
  <2> HIDE DEF f
  <2> QED
    BY <2>1
<1> HIDE DEF f
<1>2. 0 \in S
  BY ShortFacts
<1>3. ASSUME NEW n \in Nat, n \in S PROVE n + 1 \in S
  <2>1. ASSUME NEW d \in Short(n + 1) PROVE f[d] \in Decoder
    <3>1. d \in Decoder /\ \A x \in Short(Len(d.recv)) : x \in Short(n)
      BY <1>3, <2>1, DecoderType DEF Short
    <3>2. \A x \in Short(Len(d.recv)) : f[x] \in Decoder
      BY <1>3, <3>1
    <3> QED
      BY <1>1, <3>1, <3>2, AfterType
  <2> QED
    BY <1>3, <2>1
<1>4. Nat \subseteq S
  <2> HIDE DEF S
  <2> QED
    BY <1>2, <1>3, SetInduction
<1>5. ASSUME NEW d \in Decoder PROVE f[d] \in Decoder
  <2>1. Len(d.recv) + 1 \in S /\ d \in Short(Len(d.recv) + 1)
    BY <1>4, DecoderType DEF Short
  <2> QED
    BY <2>1
<1> QED
  BY <1>1, <1>5 DEF f

-----------------------------------------------------------------------------
(* Chunks one after the other.                                             *)

\* Concatenation of bytes.
LEMMA Concat ==
    /\ <<>> \in Bytes
    /\ \A s \in Bytes : s \o <<>> = s /\ <<>> \o s = s
    /\ \A s, t \in Bytes : s \o t \in Bytes /\ Len(s \o t) = Len(s) + Len(t)
<1>1. <<>> \in Bytes
  BY EmptySeq DEF Bytes
<1>2. \A s \in Bytes : s \o <<>> = s /\ <<>> \o s = s
  BY ConcatEmptySeq DEF Bytes
<1>3. \A s, t \in Bytes : s \o t \in Bytes /\ Len(s \o t) = Len(s) + Len(t)
  BY ConcatProperties DEF Bytes
<1> QED
  BY <1>1, <1>2, <1>3

\* Concatenation is associative; the equation has a name, so that a proof takes the
\* instances it needs.
Regrouped(s, t, u) == (s \o t) \o u = s \o (t \o u)
LEMMA Regroup == \A s, t, u \in Bytes : Regrouped(s, t, u)
<1>1. SUFFICES ASSUME NEW s \in Seq(Symbol), NEW t \in Seq(Symbol), NEW u \in Seq(Symbol)
               PROVE  (s \o t) \o u = s \o (t \o u)
  BY DEF Bytes, Regrouped
<1> QED
  BY ConcatAssociative

LEMMA ConcatCancel == \A s, t, u \in Bytes : s \o u = t \o u => s = t
<1>1. SUFFICES ASSUME NEW s \in Seq(Symbol), NEW t \in Seq(Symbol), NEW u \in Seq(Symbol),
                      s \o u = t \o u
               PROVE  s = t
  BY DEF Bytes
<1> QED
  BY <1>1, ConcatSimplifications

\* Two ways to cut the same bytes, and what the longer first part has in addition.
Overlap(x, y, a, b) == x \o y = a \o b /\ Len(a) <= Len(x)
Between(x, y, a, b, r) ==
    /\ r = SubSeq(x, Len(a) + 1, Len(x)) /\ SubSeq(x, 1, Len(a)) = a
    /\ b = r \o y /\ x = a \o r
LEMMA Cut ==
    ASSUME NEW x \in Bytes, NEW y \in Bytes, NEW a \in Bytes, NEW b \in Bytes,
           Overlap(x, y, a, b)
    PROVE  \E r \in Bytes : Between(x, y, a, b, r)
<1>0. x \o y = a \o b /\ Len(a) <= Len(x)
  BY DEF Overlap
<1>1. /\ Len(x) \in Nat /\ Len(y) \in Nat /\ Len(a) \in Nat /\ Len(b) \in Nat
      /\ Len(x) + Len(y) = Len(a) + Len(b)
      /\ \A i \in 1 .. Len(x) + Len(y) :
           /\ (x \o y)[i] = IF i <= Len(x) THEN x[i] ELSE y[i - Len(x)]
           /\ (a \o b)[i] = IF i <= Len(a) THEN a[i] ELSE b[i - Len(a)]
  <2>1. \A s, t \in Bytes : /\ Len(s \o t) = Len(s) + Len(t)
                            /\ \A i \in 1 .. Len(s) + Len(t) :
                                 (s \o t)[i] = IF i <= Len(s) THEN s[i] ELSE t[i - Len(s)]
    BY ConcatProperties DEF Bytes
  <2>2. \A s \in Bytes : Len(s) \in Nat
    BY LenProperties DEF Bytes
  <2>3. Len(x \o y) = Len(a \o b)
    BY <1>0
  <2> QED
    BY <2>1, <2>2, <2>3
<1>2. PICK r : r = SubSeq(x, Len(a) + 1, Len(x))
  OBVIOUS
<1>3. PICK n \in Nat \ {0} : n = Len(a) + 1
  BY <1>1
<1>4. r \in Bytes /\ Len(r) = Len(x) - Len(a)
  <2>1. r \in Bytes /\ Len(r) = IF n <= Len(x) THEN Len(x) - n + 1 ELSE 0
    BY <1>2, <1>3, BytesFrom
  <2> QED
    BY <1>0, <1>1, <1>3, <2>1
<1>5. \A i \in 1 .. Len(r) : r[i] = x[Len(a) + i]
  <2>1. \A i \in n .. Len(x) : x[i] \in Symbol
    BY <1>1, <1>3, ElementOfSeq DEF Bytes
  <2>2. n \in Int /\ Len(x) \in Int
    BY <1>1
  <2>3. \A i \in 1 .. Len(x) - n + 1 : SubSeq(x, n, Len(x))[i] = x[n + i - 1]
    BY <2>1, <2>2, SubSeqProperties
  <2> QED
    BY <1>1, <1>2, <1>3, <1>4, <2>3
<1>6. PICK q : q = SubSeq(x, 1, Len(a))
  OBVIOUS
<1>7. q \in Bytes /\ Len(q) = Len(a)
  <2>1. Len(a) \in Int
    BY <1>1
  <2>2. q \in Bytes /\ Len(q) = IF 1 <= Len(a) THEN Len(a) ELSE 0
    BY <1>0, <1>6, <2>1, BytesUpTo
  <2> QED
    BY <1>1, <2>2
<1>8. \A i \in 1 .. Len(a) : q[i] = x[i]
  <2>1. PICK m \in Int : m = 1
    OBVIOUS
  <2>2. \A i \in m .. Len(a) : x[i] \in Symbol
    BY <1>0, <1>1, <2>1, ElementOfSeq DEF Bytes
  <2>3. Len(a) \in Int
    BY <1>1
  <2>4. \A i \in 1 .. Len(a) - m + 1 : SubSeq(x, m, Len(a))[i] = x[m + i - 1]
    BY <2>2, <2>3, SubSeqProperties
  <2> QED
    BY <1>1, <1>6, <2>1, <2>4
<1>9. \A i \in 1 .. Len(a) : x[i] = a[i]
  <2> SUFFICES ASSUME NEW i \in 1 .. Len(a) PROVE x[i] = a[i]
    OBVIOUS
  <2>1. i \in 1 .. Len(x) + Len(y) /\ i <= Len(x) /\ i <= Len(a)
    BY <1>0, <1>1
  <2> QED
    BY <1>0, <1>1, <2>1
<1>10. q = a
  <2>1. \A i \in 1 .. Len(q) : q[i] = a[i]
    BY <1>7, <1>8, <1>9
  <2> QED
    BY <1>7, <2>1, SeqEqual DEF Bytes
<1>11. b = r \o y
  <2>1. r \o y \in Bytes /\ Len(r \o y) = Len(b)
    <3>1. r \o y \in Bytes /\ Len(r \o y) = Len(r) + Len(y)
      BY <1>4, ConcatProperties DEF Bytes
    <3> QED
      BY <1>1, <1>4, <3>1
  <2>2. ASSUME NEW i \in 1 .. Len(b) PROVE b[i] = (r \o y)[i]
    <3>1. (r \o y)[i] = IF i <= Len(r) THEN r[i] ELSE y[i - Len(r)]
      <4>1. i \in 1 .. Len(r) + Len(y)
        BY <1>1, <1>4
      <4> QED
        BY <1>4, <4>1, ConcatProperties DEF Bytes
    <3>2. PICK j : j = Len(a) + i
      OBVIOUS
    <3>3. /\ j \in 1 .. Len(x) + Len(y) /\ ~(j <= Len(a)) /\ j - Len(a) = i
          /\ j <= Len(x) <=> i <= Len(r)
          /\ j - Len(x) = i - Len(r)
      <4>1. /\ Len(x) \in Nat /\ Len(y) \in Nat /\ Len(a) \in Nat /\ Len(b) \in Nat
            /\ Len(x) + Len(y) = Len(a) + Len(b) /\ Len(r) = Len(x) - Len(a)
        BY <1>1, <1>4
      <4>0. Len(a) <= Len(x)
        BY <1>0
      <4>2. PICK X \in Nat, Y \in Nat, A \in Nat, B \in Nat :
              X = Len(x) /\ Y = Len(y) /\ A = Len(a) /\ B = Len(b)
        BY <4>1
      <4>3. X + Y = A + B /\ A <= X /\ j = A + i /\ i \in 1 .. B /\ Len(r) = X - A
        BY <3>2, <4>0, <4>1, <4>2
      <4>4. /\ j \in 1 .. X + Y /\ ~(j <= A) /\ j - A = i
            /\ (j <= X <=> i <= X - A) /\ j - X = i - (X - A)
        BY <4>3
      <4> QED
        BY <4>2, <4>3, <4>4
    <3>4. b[i] = IF j <= Len(x) THEN x[j] ELSE y[j - Len(x)]
      BY <1>0, <1>1, <3>3
    <3>5. CASE i <= Len(r)
      <4>1. i \in 1 .. Len(r) /\ r[i] = x[j]
        BY <1>4, <1>1, <1>5, <3>2, <3>5
      <4> QED
        BY <3>1, <3>3, <3>4, <3>5, <4>1
    <3>6. CASE ~(i <= Len(r))
      BY <3>1, <3>3, <3>4, <3>6
    <3> QED
      BY <3>5, <3>6
  <2> QED
    BY <2>1, <2>2, SeqEqual DEF Bytes
<1>12. x = a \o r
  <2>1. x \o y = (a \o r) \o y
    <3>1. Regrouped(a, r, y)
      BY <1>4, Regroup
    <3> QED
      BY <1>0, <1>11, <3>1 DEF Regrouped
  <2>2. a \o r \in Bytes
    BY <1>4, ConcatProperties DEF Bytes
  <2> QED
    BY <2>1, <2>2, ConcatCancel
<1> QED
  BY <1>2, <1>4, <1>6, <1>10, <1>11, <1>12 DEF Between

Opening(c) == <<c, "cr", "lf">>
Bits(m) == chunk(m[1], m[2])

\* R holds the empty stream, and with a stream the one with a chunk before it; a
\* stream goes with the data in it.
Closed(R) ==
    /\ <<<<>>, <<>>>> \in R
    /\ \A s, w \in Bytes, m \in Message : <<s, w>> \in R => <<Bits(m) \o s, m[2] \o w>> \in R
\* The streams that consist of whole chunks, with the data in them.
Framed == {p \in Bytes \X Bytes : \A R \in SUBSET (Bytes \X Bytes) : Closed(R) => p \in R}

LEMMA MessageType ==
    ASSUME NEW m \in Message
    PROVE  /\ m[1] \in DOMAIN Digit /\ m[2] \in Seq(Payload) /\ m[2] \in Bytes
           /\ Len(m[2]) = Digit[m[1]] /\ Digit[m[1]] \in Nat \ {0}
<1>1. PICK c \in DOMAIN Digit, b \in Payload : m = <<c, [i \in 1 .. Digit[c] |-> b]>>
  BY DEF Message
<1>2. Digit[c] \in Nat \ {0}
  BY StreamAssumption
<1>3. PICK n \in Nat : n = Digit[c]
  BY <1>2
<1>4. PICK q : q = [i \in 1 .. n |-> b]
  OBVIOUS
<1>5. q \in [1 .. n -> Payload] /\ q \in [1 .. n -> Symbol]
  BY <1>4 DEF Symbol
<1>6. q \in Seq(Payload) /\ q \in Seq(Symbol)
  BY <1>5, SeqDef
<1>7. Len(q) = n
  BY <1>4, <1>6
<1> QED
  BY <1>1, <1>2, <1>3, <1>4, <1>6, <1>7 DEF Bytes

LEMMA PieceTypes ==
    /\ EndOfChunk \in Bytes /\ Len(EndOfChunk) = 2
    /\ \A c \in DOMAIN Digit : /\ Opening(c) \in Bytes /\ Len(Opening(c)) = 3
                               /\ Opening(c)[1] = c /\ Opening(c)[2] = "cr" /\ Opening(c)[3] = "lf"
                               /\ c \notin {"cr", "lf"}
<1>1. "cr" \in Symbol /\ "lf" \in Symbol
  BY DEF Symbol
<1>2. EndOfChunk \in Bytes /\ Len(EndOfChunk) = 2
  BY <1>1 DEF EndOfChunk, Bytes
<1>3. ASSUME NEW c \in DOMAIN Digit
      PROVE  /\ Opening(c) \in Bytes /\ Len(Opening(c)) = 3
             /\ Opening(c)[1] = c /\ Opening(c)[2] = "cr" /\ Opening(c)[3] = "lf"
             /\ c \notin {"cr", "lf"}
  <2>1. c \in Symbol
    BY DEF Symbol
  <2>2. c \notin {"cr", "lf"}
    BY StreamAssumption
  <2> QED
    BY <1>1, <2>1, <2>2 DEF Opening, Bytes
<1> QED
  BY <1>2, <1>3

\* The bytes of a chunk: its opening, its data and its end.
LEMMA BitsType ==
    ASSUME NEW m \in Message
    PROVE  /\ Bits(m) \in Bytes
           /\ \A s \in Bytes : Bits(m) \o s = Opening(m[1]) \o (m[2] \o (EndOfChunk \o s))
<1>1. m[2] \in Bytes /\ Opening(m[1]) \in Bytes /\ EndOfChunk \in Bytes
  BY MessageType, PieceTypes
<1>2. Bits(m) = (Opening(m[1]) \o m[2]) \o EndOfChunk
  BY DEF Bits, chunk, Opening, EndOfChunk
<1>3. Opening(m[1]) \o m[2] \in Bytes
  BY <1>1, Concat
<1>4. ASSUME NEW s \in Bytes
      PROVE  Bits(m) \o s = Opening(m[1]) \o (m[2] \o (EndOfChunk \o s))
  <2>1. EndOfChunk \o s \in Bytes
    BY <1>1, Concat
  <2>2. Bits(m) \o s = (Opening(m[1]) \o m[2]) \o (EndOfChunk \o s)
    <3>1. PICK t \in Bytes : t = Opening(m[1]) \o m[2]
      BY <1>3
    <3>2. Regrouped(t, EndOfChunk, s)
      BY <1>1, Regroup
    <3> QED
      BY <1>2, <3>1, <3>2 DEF Regrouped
  <2>3. PICK u \in Bytes : u = EndOfChunk \o s
    BY <2>1
  <2>4. Regrouped(Opening(m[1]), m[2], u)
    BY <1>1, Regroup
  <2> QED
    BY <2>2, <2>3, <2>4 DEF Regrouped
<1> QED
  BY <1>1, <1>2, <1>3, <1>4, Concat

LEMMA FramedClosed == Closed(Framed)
<1>1. <<<<>>, <<>>>> \in Framed
  BY Concat DEF Framed, Closed
<1>2. ASSUME NEW s \in Bytes, NEW w \in Bytes, NEW m \in Message, <<s, w>> \in Framed
      PROVE  <<Bits(m) \o s, m[2] \o w>> \in Framed
  <2>1. Bits(m) \o s \in Bytes /\ m[2] \o w \in Bytes
    BY BitsType, MessageType, Concat
  <2>2. ASSUME NEW R \in SUBSET (Bytes \X Bytes), Closed(R)
        PROVE  <<Bits(m) \o s, m[2] \o w>> \in R
    <3>1. <<s, w>> \in R
      BY <1>2, <2>2 DEF Framed
    <3> QED
      BY <2>2, <3>1 DEF Closed
  <2> QED
    BY <2>1, <2>2 DEF Framed
<1> QED
  BY <1>1, <1>2 DEF Closed

\* Induction over the chunks of a stream.
LEMMA FramedInduction ==
    ASSUME NEW R, R \subseteq Bytes \X Bytes, Closed(R)
    PROVE  Framed \subseteq R
BY DEF Framed

\* A chunk may also be added at the end.
LEMMA FramedAdd ==
    ASSUME NEW p \in Framed, NEW a \in Message
    PROVE  <<p[1] \o Bits(a), p[2] \o a[2]>> \in Framed
<1> DEFINE R == {q \in Bytes \X Bytes : <<q[1] \o Bits(a), q[2] \o a[2]>> \in Framed}
<1>0. Bits(a) \in Bytes /\ a[2] \in Bytes
  BY BitsType, MessageType
<1>1. <<<<>>, <<>>>> \in R
  <2>1. <<Bits(a) \o <<>>, a[2] \o <<>>>> \in Framed
    BY FramedClosed, Concat DEF Closed
  <2> QED
    BY <1>0, <2>1, Concat
<1>2. ASSUME NEW s \in Bytes, NEW w \in Bytes, NEW m \in Message, <<s, w>> \in R
      PROVE  <<Bits(m) \o s, m[2] \o w>> \in R
  <2>1. Bits(m) \in Bytes /\ m[2] \in Bytes
    BY BitsType, MessageType
  <2>2. /\ s \o Bits(a) \in Bytes /\ w \o a[2] \in Bytes
        /\ Bits(m) \o s \in Bytes /\ m[2] \o w \in Bytes
    BY <1>0, <2>1, Concat
  <2>3. <<Bits(m) \o (s \o Bits(a)), m[2] \o (w \o a[2])>> \in Framed
    BY <1>2, <2>2, FramedClosed DEF Closed
  <2>4. /\ Bits(m) \o (s \o Bits(a)) = (Bits(m) \o s) \o Bits(a)
        /\ m[2] \o (w \o a[2]) = (m[2] \o w) \o a[2]
    <3>1. PICK b \in Bytes, c \in Bytes, x \in Bytes, y \in Bytes :
            b = Bits(a) /\ c = Bits(m) /\ x = a[2] /\ y = m[2]
      BY <1>0, <2>1
    <3>2. Regrouped(c, s, b) /\ Regrouped(y, w, x)
      BY Regroup
    <3> QED
      BY <3>1, <3>2 DEF Regrouped
  <2> QED
    BY <2>2, <2>3, <2>4
<1>3. Closed(R)
  <2> HIDE DEF R
  <2> QED
    BY <1>1, <1>2 DEF Closed
<1>4. p \in R
  <2>1. R \subseteq Bytes \X Bytes
    OBVIOUS
  <2> HIDE DEF R
  <2> QED
    BY <1>3, <2>1, FramedInduction
<1> QED
  BY <1>4

-----------------------------------------------------------------------------
(* What the decoder takes out of whole chunks that are cut anywhere.       *)

LEMMA Indexed ==
    \A s, t \in Bytes : \A i \in 1 .. Len(s) : i \in 1 .. Len(s) + Len(t) /\ (s \o t)[i] = s[i]
<1>1. SUFFICES ASSUME NEW s \in Seq(Symbol), NEW t \in Seq(Symbol), NEW i \in 1 .. Len(s)
               PROVE  i \in 1 .. Len(s) + Len(t) /\ (s \o t)[i] = s[i]
  BY DEF Bytes
<1>2. Len(s) \in Nat /\ Len(t) \in Nat
  BY LenProperties
<1>3. i \in 1 .. Len(s) + Len(t) /\ i <= Len(s)
  BY <1>2
<1> QED
  BY <1>3, ConcatProperties

\* An opening, of which a part has arrived or all.
OpeningFirst(d, rest, m, t) == d.ok /\ d.recv \o rest = Opening(m[1]) \o t
LEMMA HeaderTakes ==
    ASSUME NEW d \in Decoder, NEW rest \in Bytes, NEW m \in Message, NEW t \in Bytes,
           OpeningFirst(d, rest, m, t)
    PROVE  \/ Header(d).ok /\ Header(d).size = Digit[m[1]] /\ Header(d).recv \o rest = t
           \/ ~Header(d).ok /\ rest # <<>>
<1> DEFINE c == m[1]
<1>0. /\ d.recv \in Bytes /\ Len(d.recv) \in Nat /\ DOMAIN d.recv = 1 .. Len(d.recv)
      /\ Opening(c) \in Bytes /\ Len(Opening(c)) = 3 /\ c \in DOMAIN Digit
      /\ Opening(c)[1] = c /\ Opening(c)[2] = "cr" /\ Opening(c)[3] = "lf" /\ c \notin {"cr", "lf"}
  BY DecoderType, MessageType, PieceTypes
<1>1. d.ok /\ d.recv \o rest = Opening(c) \o t
  BY DEF OpeningFirst
<1>2. ASSUME NEW i \in 1 .. Len(d.recv), i <= 3 PROVE d.recv[i] = Opening(c)[i]
  <2>1. (d.recv \o rest)[i] = d.recv[i]
    BY <1>0, Indexed
  <2>2. i \in 1 .. Len(Opening(c))
    BY <1>0, <1>2
  <2>3. (Opening(c) \o t)[i] = Opening(c)[i]
    BY <1>0, <2>2, Indexed
  <2> QED
    BY <1>1, <2>1, <2>3
<1> HIDE DEF c
<1>3. CASE Len(d.recv) < 3
  <2>1. LineEnds(d) = {}
    <3>1. ASSUME NEW i \in DOMAIN d.recv PROVE d.recv[i] # "lf"
      <4>1. i \in 1 .. Len(d.recv) /\ (i = 1 \/ i = 2) /\ i <= 3
        BY <1>0, <1>3
      <4>2. d.recv[i] = Opening(c)[i]
        BY <1>2, <4>1
      <4> QED
        BY <1>0, <4>1, <4>2
    <3> QED
      BY <3>1 DEF LineEnds
  <2>2. ~Header(d).ok
    <3>1. Header(d) = [d EXCEPT !.ok = FALSE]
      BY <2>1, HeaderNoLine
    <3> QED
      BY <3>1 DEF Decoder
  <2>3. rest # <<>>
    <3>1. SUFFICES ASSUME rest = <<>> PROVE FALSE
      OBVIOUS
    <3>2. d.recv = Opening(c) \o t
      BY <1>0, <1>1, <3>1, Concat
    <3>3. Len(d.recv) = 3 + Len(t) /\ Len(t) \in Nat
      <4>1. Len(Opening(c) \o t) = Len(Opening(c)) + Len(t)
        BY <1>0, Concat
      <4>2. Len(t) \in Nat
        BY LenProperties DEF Bytes
      <4> QED
        BY <1>0, <3>2, <4>1, <4>2
    <3> QED
      BY <1>0, <1>3, <3>3
  <2> QED
    BY <2>2, <2>3
<1>4. CASE ~(Len(d.recv) < 3)
  <2>1. /\ 1 \in 1 .. Len(d.recv) /\ 2 \in 1 .. Len(d.recv) /\ 3 \in 1 .. Len(d.recv)
    BY <1>0, <1>4
  <2>2. d.recv[1] = c /\ d.recv[2] = "cr" /\ d.recv[3] = "lf"
    BY <1>0, <1>2, <2>1
  <2>3. 3 \in LineEnds(d) /\ 1 \notin LineEnds(d) /\ 2 \notin LineEnds(d) /\ LineEnds(d) \subseteq Nat \ {0}
    BY <1>0, <2>1, <2>2 DEF LineEnds
  <2>4. PICK end \in LineEnds(d), last \in Int :
          /\ \A j \in LineEnds(d) : end <= j
          /\ last = IF end > 1 /\ d.recv[end - 1] = "cr" THEN end - 2 ELSE end - 1
          /\ Header(d) = [d EXCEPT !.size = Scanned(SubSeq(d.recv, 1, last)),
                                   !.recv = SubSeq(d.recv, end + 1, Len(d.recv))]
    BY <2>3, HeaderLine
  <2>5. end = 3
    BY <2>3, <2>4
  <2>6. last = 1 /\ end + 1 = 4
    BY <2>2, <2>4, <2>5
  <2>7. PICK line : line = SubSeq(d.recv, 1, 1)
    OBVIOUS
  <2>8. Scanned(line) = Digit[c]
    <3>1. PICK one \in Int : one = 1
      OBVIOUS
    <3>2. line \in Bytes /\ Len(line) = 1
      <4>1. one <= Len(d.recv)
        BY <2>1, <3>1
      <4>2. SubSeq(d.recv, 1, one) \in Bytes
            /\ Len(SubSeq(d.recv, 1, one)) = IF 1 <= one THEN one ELSE 0
        BY <1>0, <4>1, BytesUpTo
      <4> QED
        BY <2>7, <3>1, <4>2
    <3>3. line[1] = d.recv[1]
      <4>1. \A i \in one .. one : d.recv[i] \in Symbol
        BY <1>0, <2>1, <3>1, ElementOfSeq DEF Bytes
      <4>2. \A i \in 1 .. one - one + 1 : SubSeq(d.recv, one, one)[i] = d.recv[one + i - 1]
        BY <4>1, SubSeqProperties
      <4> QED
        BY <2>7, <3>1, <4>2
    <3>4. line # <<>>
      BY <3>2, EmptySeq
    <3> QED
      BY <1>0, <2>2, <3>3, <3>4 DEF Scanned
  <2>9. PICK r : r = SubSeq(d.recv, 4, Len(d.recv))
    OBVIOUS
  <2>10. t = r \o rest
    <3>1. Len(Opening(c)) <= Len(d.recv) /\ Len(Opening(c)) + 1 = 4
      BY <1>0, <1>4
    <3>2. Overlap(d.recv, rest, Opening(c), t)
      BY <1>1, <3>1 DEF Overlap
    <3>3. PICK q \in Bytes : Between(d.recv, rest, Opening(c), t, q)
      BY <1>0, <3>2, Cut
    <3>4. q = SubSeq(d.recv, Len(Opening(c)) + 1, Len(d.recv)) /\ t = q \o rest
      BY <3>3 DEF Between
    <3>5. q = r
      BY <2>9, <3>1, <3>4
    <3> QED
      BY <3>4, <3>5
  <2>11. Header(d) = [d EXCEPT !.size = Scanned(line), !.recv = r]
    BY <2>4, <2>5, <2>6, <2>7, <2>9
  <2>12. Header(d).size = Scanned(line) /\ Header(d).recv = r /\ Header(d).ok = d.ok
    BY <2>11 DEF Decoder
  <2> QED
    BY <1>1, <2>8, <2>10, <2>12 DEF c
<1> QED
  BY <1>3, <1>4

\* The data of a chunk whose opening has been taken, of which a part has arrived
\* or all.
DataFirst(e, rest, m, t) ==
    e.size = Len(m[2]) /\ e.recv \o rest = m[2] \o (EndOfChunk \o t)
DataOut(e, rest, m, t) ==
    /\ Published(e) \in Decoder
    /\ Published(e).ok = e.ok /\ Published(e).size = 0
    /\ Published(e).published = e.published \o m[2]
    /\ Published(e).recv \o rest = t
LEMMA DataTakes ==
    ASSUME NEW e \in Decoder, NEW rest \in Bytes, NEW m \in Message, NEW t \in Bytes,
           DataFirst(e, rest, m, t)
    PROVE  /\ Complete(e) => DataOut(e, rest, m, t)
           /\ ~Complete(e) => rest # <<>>
<1>0. /\ m[2] \in Bytes /\ EndOfChunk \in Bytes /\ Len(EndOfChunk) = 2
      /\ e.recv \in Bytes /\ e.size \in Nat /\ Len(e.recv) \in Nat
      /\ e.size = Len(m[2]) /\ e.recv \o rest = m[2] \o (EndOfChunk \o t)
  BY DecoderType, MessageType, PieceTypes DEF DataFirst
<1>1. PICK a \in Bytes, b \in Bytes : a = m[2] \o EndOfChunk /\ b = EndOfChunk \o t
  BY <1>0, Concat
<1>2. Len(a) = e.size + 2 /\ Len(b) = 2 + Len(t) /\ Len(t) \in Nat
  <2>1. Len(m[2] \o EndOfChunk) = Len(m[2]) + Len(EndOfChunk)
        /\ Len(EndOfChunk \o t) = Len(EndOfChunk) + Len(t)
    BY <1>0, Concat
  <2>2. Len(t) \in Nat
    BY LenProperties DEF Bytes
  <2> QED
    BY <1>0, <1>1, <2>1, <2>2
<1>3. e.recv \o rest = m[2] \o b /\ m[2] \o b = a \o t
  <2>1. e.recv \o rest = m[2] \o b
    BY <1>0, <1>1
  <2>2. (m[2] \o EndOfChunk) \o t = m[2] \o (EndOfChunk \o t)
    <3>1. PICK x \in Bytes, y \in Bytes : x = m[2] /\ y = EndOfChunk
      BY <1>0
    <3>2. Regrouped(x, y, t)
      BY Regroup
    <3> QED
      BY <3>1, <3>2 DEF Regrouped
  <2> QED
    BY <1>1, <2>1, <2>2
<1>4. ASSUME Complete(e) PROVE DataOut(e, rest, m, t)
  <2>1. e.size + 2 <= Len(e.recv)
    BY <1>4 DEF Complete
  <2>2. PICK q \in Bytes : q = SubSeq(e.recv, e.size + 3, Len(e.recv)) /\ t = q \o rest
    <3>1. Overlap(e.recv, rest, a, t)
      BY <1>2, <1>3, <2>1 DEF Overlap
    <3>2. PICK q \in Bytes : Between(e.recv, rest, a, t, q)
      BY <1>0, <3>1, Cut
    <3>3. q = SubSeq(e.recv, Len(a) + 1, Len(e.recv)) /\ t = q \o rest
      BY <3>2 DEF Between
    <3>4. Len(a) + 1 = e.size + 3
      BY <1>0, <1>2
    <3> QED
      BY <3>3, <3>4
  <2>3. SubSeq(e.recv, 1, e.size) = m[2]
    <3>1. Len(m[2]) <= Len(e.recv)
      BY <1>0, <2>1
    <3>2. Overlap(e.recv, rest, m[2], b)
      BY <1>3, <3>1 DEF Overlap
    <3>3. PICK r \in Bytes : Between(e.recv, rest, m[2], b, r)
      BY <1>0, <3>2, Cut
    <3> QED
      BY <1>0, <3>3 DEF Between
  <2>4. PICK n : n = e.size + 3
    OBVIOUS
  <2>5. Published(e) = [e EXCEPT !.published = e.published \o m[2],
                                 !.recv = SubSeq(e.recv, n, Len(e.recv)), !.size = 0]
    BY <2>3, <2>4 DEF Published
  <2>6. Published(e) = [e EXCEPT !.published = e.published \o m[2], !.recv = q, !.size = 0]
    BY <2>2, <2>4, <2>5
  <2>7. PICK w : w = e.published \o m[2]
    OBVIOUS
  <2>8. /\ Published(e).published = w /\ Published(e).recv = q
        /\ Published(e).size = 0 /\ Published(e).ok = e.ok
    BY <2>6, <2>7 DEF Decoder
  <2>9. Published(e) \in Decoder
    BY <1>4, PublishedType
  <2> QED
    BY <2>2, <2>7, <2>8, <2>9 DEF DataOut
<1>5. ASSUME ~Complete(e), rest = <<>> PROVE FALSE
  <2>1. e.recv = a \o t
    BY <1>0, <1>3, <1>5, Concat
  <2>2. Len(a \o t) = Len(a) + Len(t)
    BY Concat
  <2>3. Len(e.recv) = e.size + 2 + Len(t)
    BY <1>2, <2>1, <2>2
  <2>4. ~(e.size + 2 <= Len(e.recv))
    BY <1>5 DEF Complete
  <2> QED
    BY <1>0, <1>2, <2>3, <2>4
<1> QED
  BY <1>4, <1>5

\* What is still to come is whole chunks, after the rest of the one begun.
Pending(size, s, p) ==
    \/ size = 0 /\ <<s, p>> \in Framed
    \/ \E m \in Message, q \in Framed :
         /\ size = Len(m[2]) /\ s = m[2] \o (EndOfChunk \o q[1]) /\ p = m[2] \o q[2]

\* e is the decoder that has taken what it could out of a stream with the data
\* all, of which the bytes rest have not arrived.
Taken(e, rest, all) ==
    /\ \E p \in Bytes : all = e.published \o p /\ (e.ok => Pending(e.size, e.recv \o rest, p))
    /\ rest = <<>> => e.ok /\ e.published = all

Right(q) ==
    \A d \in Decoder, rest \in Bytes :
        d.ok /\ d.size = 0 /\ d.recv # <<>> /\ d.recv \o rest = q[1]
            => Taken(publish_data_from_chunk[d], rest, d.published \o q[2])

LEMMA FramedType == \A q \in Framed : /\ q[1] \in Bytes /\ q[2] \in Bytes /\ q = <<q[1], q[2]>>
BY DEF Framed

\* No bytes, no data.
LEMMA FramedEmpty == \A q \in Framed : q[1] = <<>> => q[2] = <<>>
<1> DEFINE R == {q \in Bytes \X Bytes : q[1] = <<>> => q[2] = <<>>}
<1>1. <<<<>>, <<>>>> \in R
  BY Concat
<1>2. ASSUME NEW s \in Bytes, NEW w \in Bytes, NEW m \in Message, <<s, w>> \in R
      PROVE  <<Bits(m) \o s, m[2] \o w>> \in R
  <2>1. Bits(m) \o s \in Bytes /\ m[2] \o w \in Bytes
    BY BitsType, MessageType, Concat
  <2>2. PICK t \in Bytes : Bits(m) \o s = Opening(m[1]) \o t
    <3>1. EndOfChunk \o s \in Bytes
      BY PieceTypes, Concat
    <3>2. m[2] \o (EndOfChunk \o s) \in Bytes
      BY <3>1, MessageType, Concat
    <3> QED
      BY <3>2, BitsType
  <2>3. Len(Opening(m[1]) \o t) = 3 + Len(t) /\ Len(t) \in Nat
    <3>1. Opening(m[1]) \in Bytes /\ Len(Opening(m[1])) = 3
      BY MessageType, PieceTypes
    <3>2. Len(Opening(m[1]) \o t) = Len(Opening(m[1])) + Len(t)
      BY <3>1, Concat
    <3>3. Len(t) \in Nat
      BY LenProperties DEF Bytes
    <3> QED
      BY <3>1, <3>2, <3>3
  <2>4. Bits(m) \o s # <<>>
    <3>1. Len(Bits(m) \o s) # 0
      BY <2>2, <2>3
    <3> QED
      BY <3>1, EmptySeq
  <2> QED
    BY <2>1, <2>4
<1>3. Closed(R) /\ R \subseteq Bytes \X Bytes
  <2>1. R \subseteq Bytes \X Bytes
    OBVIOUS
  <2> HIDE DEF R
  <2> QED
    BY <1>1, <1>2, <2>1 DEF Closed
<1>4. Framed \subseteq R
  <2> HIDE DEF R
  <2> QED
    BY <1>3, FramedInduction
<1> QED
  BY <1>4

\* What becomes of a chunk whose opening has been taken, and of those after it.
LEMMA DataTaken ==
    ASSUME NEW q \in Framed, Right(q), NEW m \in Message, NEW e \in Decoder, e.ok,
           NEW rest \in Bytes, DataFirst(e, rest, m, q[1])
    PROVE  /\ After(publish_data_from_chunk, e) \in Decoder
           /\ Taken(After(publish_data_from_chunk, e), rest, e.published \o (m[2] \o q[2]))
<1> DEFINE f == publish_data_from_chunk
<1>0. /\ m[2] \in Bytes /\ q[1] \in Bytes /\ q[2] \in Bytes /\ q = <<q[1], q[2]>>
      /\ e.published \in Bytes /\ e.recv \in Bytes
      /\ e.size = Len(m[2]) /\ e.recv \o rest = m[2] \o (EndOfChunk \o q[1])
  BY MessageType, FramedType, DecoderType DEF DataFirst
<1>1. m[2] \o q[2] \in Bytes
  BY <1>0, Concat
<1>2. CASE ~Complete(e)
  <2>1. After(f, e) = e
    BY <1>2 DEF After
  <2>2. rest # <<>>
    BY <1>0, <1>2, DataTakes
  <2>3. Pending(e.size, e.recv \o rest, m[2] \o q[2])
    BY <1>0 DEF Pending
  <2>4. Taken(e, rest, e.published \o (m[2] \o q[2]))
    BY <1>1, <2>2, <2>3 DEF Taken
  <2> QED
    BY <2>1, <2>4
<1>3. CASE Complete(e)
  <2>1. PICK p \in Decoder : p = Published(e) /\ p.ok /\ p.size = 0
          /\ p.published = e.published \o m[2] /\ p.recv \o rest = q[1]
    <3>1. DataOut(e, rest, m, q[1])
      BY <1>0, <1>3, DataTakes
    <3>2. PICK p : p = Published(e)
      OBVIOUS
    <3> QED
      BY <3>1, <3>2 DEF DataOut
  <2>2. e.published \o (m[2] \o q[2]) = p.published \o q[2]
    <3>1. PICK x \in Bytes, y \in Bytes, z \in Bytes : x = e.published /\ y = m[2] /\ z = q[2]
      BY <1>0
    <3>2. Regrouped(x, y, z)
      BY Regroup
    <3> QED
      BY <2>1, <3>1, <3>2 DEF Regrouped
  <2>3. CASE p.recv # <<>>
    <3>1. After(f, e) = f[p]
      BY <1>3, <2>1, <2>3 DEF After, GoOn
    <3>2. Taken(f[p], rest, p.published \o q[2])
      BY <2>1, <2>3 DEF Right
    <3> QED
      BY <2>2, <3>1, <3>2, DecoderStep
  <2>4. CASE p.recv = <<>>
    <3>1. After(f, e) = p
      BY <1>3, <2>1, <2>4 DEF After, GoOn
    <3>2. rest = q[1]
      BY <2>1, <2>4, Concat
    <3>3. Pending(p.size, p.recv \o rest, q[2])
      BY <1>0, <2>1 DEF Pending
    <3>4. rest = <<>> => p.published = p.published \o q[2]
      <4>1. SUFFICES ASSUME rest = <<>> PROVE p.published = p.published \o q[2]
        OBVIOUS
      <4>2. q[2] = <<>>
        BY <3>2, <4>1, FramedEmpty
      <4> QED
        BY <4>2, Concat, DecoderType
    <3>5. Taken(p, rest, p.published \o q[2])
      BY <1>0, <2>1, <3>3, <3>4 DEF Taken
    <3> QED
      BY <2>2, <3>1, <3>5
  <2> QED
    BY <2>3, <2>4
<1> QED
  BY <1>2, <1>3

\* Whatever part of whole chunks has arrived, the decoder takes the data out of it
\* that are in it.
LEMMA AllRight == \A q \in Framed : Right(q)
<1> DEFINE R == {q \in Framed : Right(q)}
<1>1. <<<<>>, <<>>>> \in R
  <2>1. <<<<>>, <<>>>> \in Framed
    BY FramedClosed DEF Closed
  <2>2. PICK q : q = <<<<>>, <<>>>>
    OBVIOUS
  <2>3. ASSUME NEW d \in Decoder, NEW rest \in Bytes, d.recv # <<>>, d.recv \o rest = q[1]
        PROVE  FALSE
    <3>1. q[1] = <<>>
      BY <2>2
    <3>2. Len(d.recv \o rest) = Len(d.recv) + Len(rest)
      BY DecoderType, Concat
    <3>3. Len(d.recv) \in Nat /\ Len(rest) \in Nat /\ Len(d.recv \o rest) = 0
      BY <2>3, <3>1, LenProperties, DecoderType, EmptySeq DEF Bytes
    <3>4. Len(d.recv) = 0
      BY <3>2, <3>3
    <3> QED
      BY <2>3, <3>4, EmptySeq, DecoderType DEF Bytes
  <2>4. Right(q)
    BY <2>3 DEF Right
  <2> QED
    BY <2>1, <2>2, <2>4
<1>2. ASSUME NEW s \in Bytes, NEW w \in Bytes, NEW m \in Message, <<s, w>> \in R
      PROVE  <<Bits(m) \o s, m[2] \o w>> \in R
  <2>0. PICK q \in Framed : q = <<s, w>> /\ Right(q) /\ q[1] = s /\ q[2] = w
    BY <1>2
  <2>1. PICK r : r = <<Bits(m) \o s, m[2] \o w>> /\ r \in Framed
    BY <1>2, FramedClosed DEF Closed
  <2>2. r[1] = Bits(m) \o s /\ r[2] = m[2] \o w
    BY <2>1
  <2>3. PICK t \in Bytes : t = m[2] \o (EndOfChunk \o s) /\ r[1] = Opening(m[1]) \o t
    <3>1. EndOfChunk \o s \in Bytes
      BY PieceTypes, Concat
    <3>2. m[2] \o (EndOfChunk \o s) \in Bytes
      BY <3>1, MessageType, Concat
    <3> QED
      BY <2>2, <3>2, BitsType
  <2>4. ASSUME NEW d \in Decoder, NEW rest \in Bytes, d.ok, d.size = 0, d.recv \o rest = r[1]
        PROVE  Taken(publish_data_from_chunk[d], rest, d.published \o r[2])
    <3>1. PICK e \in Decoder : e = Header(d) /\ e = Begun(d) /\ e.published = d.published
      BY <2>4, HeaderType DEF Begun
    <3>2. publish_data_from_chunk[d] = After(publish_data_from_chunk, e)
      BY <3>1, DecoderStep
    <3>3. \/ e.ok /\ e.size = Digit[m[1]] /\ e.recv \o rest = t
          \/ ~e.ok /\ rest # <<>>
      <4>1. OpeningFirst(d, rest, m, t)
        BY <2>3, <2>4 DEF OpeningFirst
      <4> QED
        BY <3>1, <4>1, HeaderTakes
    <3>4. CASE e.ok /\ e.size = Digit[m[1]] /\ e.recv \o rest = t
      <4>1. DataFirst(e, rest, m, q[1])
        BY <2>0, <2>3, <3>4, MessageType DEF DataFirst
      <4>2. Taken(After(publish_data_from_chunk, e), rest, e.published \o (m[2] \o q[2]))
        BY <2>0, <3>4, <4>1, DataTaken
      <4> QED
        BY <2>0, <2>2, <3>1, <3>2, <4>2
    <3>5. CASE ~e.ok /\ rest # <<>>
      <4>1. publish_data_from_chunk[d] = e
        BY <3>2, <3>5 DEF After
      <4>2. r[2] \in Bytes
        BY <2>1, FramedType
      <4> QED
        BY <3>1, <3>5, <4>1, <4>2 DEF Taken
    <3> QED
      BY <3>3, <3>4, <3>5
  <2>5. Right(r)
    BY <2>4 DEF Right
  <2> QED
    BY <2>1, <2>5
<1>3. Closed(R)
  <2> HIDE DEF R
  <2> QED
    BY <1>1, <1>2 DEF Closed
<1>4. R \subseteq Bytes \X Bytes
  BY DEF Framed
<1>5. Framed \subseteq R
  <2> HIDE DEF R
  <2> QED
    BY <1>3, <1>4, FramedInduction
<1> QED
  BY <1>5

\* The same for a decoder that may have begun a chunk.
LEMMA AllTaken ==
    ASSUME NEW d \in Decoder, d.ok, d.recv # <<>>, NEW rest \in Bytes, NEW p \in Bytes,
           Pending(d.size, d.recv \o rest, p)
    PROVE  /\ publish_data_from_chunk[d] \in Decoder
           /\ Taken(publish_data_from_chunk[d], rest, d.published \o p)
<1>1. CASE d.size = 0 /\ <<d.recv \o rest, p>> \in Framed
  <2>1. PICK q \in Framed : q[1] = d.recv \o rest /\ q[2] = p
    BY <1>1
  <2>2. Right(q)
    BY AllRight
  <2> QED
    BY <1>1, <2>1, <2>2, DecoderStep DEF Right
<1>2. ASSUME NEW m \in Message, NEW q \in Framed, d.size = Len(m[2]),
             d.recv \o rest = m[2] \o (EndOfChunk \o q[1]), p = m[2] \o q[2]
      PROVE  /\ publish_data_from_chunk[d] \in Decoder
             /\ Taken(publish_data_from_chunk[d], rest, d.published \o p)
  <2>1. d.size # 0
    BY <1>2, MessageType
  <2>2. Begun(d) = d
    BY <2>1 DEF Begun
  <2>3. publish_data_from_chunk[d] = After(publish_data_from_chunk, d)
    BY <2>2, DecoderStep
  <2>4. DataFirst(d, rest, m, q[1]) /\ Right(q)
    BY <1>2, AllRight DEF DataFirst
  <2> QED
    BY <1>2, <2>3, <2>4, DataTaken
<1> QED
  BY <1>1, <1>2 DEF Pending

-----------------------------------------------------------------------------
(* The stream.                                                             *)

\* b begins with a; the data all, of which some are published, go on with those
\* that the bytes arrived and still to arrive hold.
Sent(a, b) == \E p \in Bytes : b = a \o p
Unread(recv, o) == recv \o o
Rest(size, recv, o, published, all) ==
    \E p \in Bytes : all = published \o p /\ Pending(size, Unread(recv, o), p)

\* Before the session runs nothing is published and the stream is whole chunks;
\* after that the rest of it is.  What the last connection left in the buffer goes
\* with the answer to the handshake.
StreamInv ==
    /\ StreamTypeOK /\ decoder.ok
    /\ clean => Sent(decoder.published, written)
    /\ clean /\ state \in {"Handshaking", "Registering"} => decoder.size = 0 /\ decoder.published = <<>>
    /\ clean /\ state = "Handshaking" => <<out, written>> \in Framed
    /\ clean /\ state = "Registering" => <<Unread(decoder.recv, out), written>> \in Framed
    /\ clean /\ state = "Running" => Rest(decoder.size, decoder.recv, out, decoder.published, written)

LEMMA SentIsPrefix == \A a, b \in Bytes : Sent(a, b) => IsPrefix(a, b)
<1>1. SUFFICES ASSUME NEW s \in Bytes, NEW x \in Bytes, Sent(s, x) PROVE IsPrefix(s, x)
  OBVIOUS
<1>2. PICK p \in Bytes : x = s \o p /\ Len(x) = Len(s) + Len(p) /\ Len(s) \in Nat /\ Len(p) \in Nat
  BY <1>1, Concat, LenProperties DEF Bytes, Sent
<1>3. Len(s) <= Len(x)
  BY <1>2
<1>4. Overlap(x, <<>>, s, p)
  BY <1>2, <1>3, Concat DEF Overlap
<1>5. \E r \in Bytes : Between(x, <<>>, s, p, r)
  BY <1>4, Concat, Cut
<1>6. SubSeq(x, 1, Len(s)) = s
  BY <1>5 DEF Between
<1>7. SubSeq(s, 1, Len(s)) = s
  BY SubSeqFull DEF Bytes
<1> QED
  BY <1>3, <1>6, <1>7 DEF IsPrefix

LEMMA PayloadBytes == Seq(Payload) \subseteq Bytes
<1>1. Payload \subseteq Symbol
  BY DEF Symbol
<1>2. SUFFICES ASSUME NEW s \in Seq(Payload) PROVE s \in Seq(Symbol)
  BY DEF Bytes
<1>3. \A i \in 1 .. Len(s) : s[i] \in Symbol
  BY <1>1, ElementOfSeq
<1> QED
  BY <1>3, IsASeq

\* The type invariant, part by part.
LEMMA StreamTypes ==
    ASSUME StreamTypeOK
    PROVE  /\ out \in Bytes /\ written \in Bytes /\ decoder \in Decoder
           /\ decoder.recv \in Bytes /\ decoder.published \in Bytes /\ decoder.size \in Nat
           /\ Unread(decoder.recv, out) \in Bytes
<1>1. out \in Bytes /\ written \in Bytes /\ decoder \in Decoder
  BY PayloadBytes DEF StreamTypeOK, Bytes
<1>2. decoder.recv \in Bytes /\ decoder.published \in Bytes /\ decoder.size \in Nat
  BY <1>1, DecoderType
<1> QED
  BY <1>1, <1>2, Concat DEF Unread

\* A chunk that is written adds its data to what is still to come.
LEMMA PendingAdd ==
    ASSUME NEW size, NEW s \in Bytes, NEW p \in Bytes, NEW a \in Message, Pending(size, s, p)
    PROVE  Pending(size, s \o Bits(a), p \o a[2])
<1>0. PICK b \in Bytes, x \in Bytes : b = Bits(a) /\ x = a[2]
  BY BitsType, MessageType
<1>1. CASE size = 0 /\ <<s, p>> \in Framed
  <2>1. PICK q \in Framed : q[1] = s /\ q[2] = p
    BY <1>1
  <2>2. <<s \o Bits(a), p \o a[2]>> \in Framed
    BY <2>1, FramedAdd
  <2> QED
    BY <1>1, <2>2 DEF Pending
<1>2. ASSUME NEW m \in Message, NEW q \in Framed,
             size = Len(m[2]), s = m[2] \o (EndOfChunk \o q[1]), p = m[2] \o q[2]
      PROVE  Pending(size, s \o Bits(a), p \o a[2])
  <2>1. PICK r : r = <<q[1] \o b, q[2] \o x>> /\ r \in Framed
    BY <1>0, FramedAdd
  <2>2. r[1] = q[1] \o b /\ r[2] = q[2] \o x
    BY <2>1
  <2>3. PICK y \in Bytes, v \in Bytes, t \in Bytes, w \in Bytes :
          y = m[2] /\ v = EndOfChunk /\ t = q[1] /\ w = q[2]
    BY MessageType, PieceTypes, FramedType
  <2>4. s \o b = m[2] \o (EndOfChunk \o r[1])
    <3>1. Regrouped(v, t, b)
      BY Regroup
    <3>2. PICK vt \in Bytes : vt = v \o t
      BY Concat
    <3>3. Regrouped(y, vt, b)
      BY Regroup
    <3> QED
      BY <1>2, <2>2, <2>3, <3>1, <3>2, <3>3 DEF Regrouped
  <2>5. p \o x = m[2] \o r[2]
    <3>1. Regrouped(y, w, x)
      BY Regroup
    <3> QED
      BY <1>2, <2>2, <2>3, <3>1 DEF Regrouped
  <2> QED
    BY <1>0, <1>2, <2>1, <2>4, <2>5 DEF Pending
<1> QED
  BY <1>1, <1>2 DEF Pending

LEMMA StreamInitInv == StreamInit => StreamInv
<1> SUFFICES ASSUME StreamInit PROVE StreamInv
  OBVIOUS
<1>1. <<>> \in Seq(Symbol) /\ <<>> \in Seq(Payload) /\ <<>> \in Bytes
  BY EmptySeq, Concat
<1>2. StreamTypeOK
  <2>1. decoder \in Decoder
    BY <1>1 DEF StreamInit, Decoder
  <2> QED
    BY <1>1, <2>1, StreamAssumption DEF StreamTypeOK, StreamInit
<1>3. <<out, written>> \in Framed
  BY FramedClosed DEF Closed, StreamInit
<1>4. Sent(<<>>, <<>>)
  BY <1>1, Concat DEF Sent
<1>5. /\ decoder.ok = TRUE /\ decoder.published = <<>> /\ decoder.size = 0
      /\ state = "Handshaking" /\ written = <<>>
  BY DEF StreamInit
<1> QED
  BY <1>2, <1>3, <1>4, <1>5 DEF StreamInv

LEMMA TransferInv ==
    ASSUME StreamInv, NEW m \in Message, transfer_sub_raw_data(m)
    PROVE  StreamInv'
<1>1. UNCHANGED <<state, decoder, clean, breaks>> /\ messages' \in 0 .. MaxMessages
      /\ alive' \in BOOLEAN
  <2>1. messages' \in 0 .. MaxMessages
    <3>1. messages \in 0 .. MaxMessages
      BY DEF StreamInv, StreamTypeOK
    <3>2. messages < MaxMessages /\ messages' = messages + 1
      BY DEF transfer_sub_raw_data
    <3>3. MaxMessages \in Nat
      BY StreamAssumption
    <3> QED
      BY <3>1, <3>2, <3>3
  <2>2. alive' \in BOOLEAN
    BY DEF transfer_sub_raw_data, StreamInv, StreamTypeOK
  <2> QED
    BY <2>1, <2>2 DEF transfer_sub_raw_data
<1>2. CASE UNCHANGED <<out, written>>
  <2>1. StreamTypeOK'
    BY <1>1, <1>2 DEF StreamInv, StreamTypeOK
  <2> QED
    BY <1>1, <1>2, <2>1 DEF StreamInv
<1>3. CASE out' = out \o Bits(m) /\ written' = written \o m[2]
  <2>1. PICK o \in Bytes, w \in Bytes, b \in Bytes, x \in Bytes, r \in Bytes, pub \in Bytes :
          /\ o = out /\ w = written /\ b = Bits(m) /\ x = m[2]
          /\ r = decoder.recv /\ pub = decoder.published
    BY MessageType, BitsType, StreamTypes DEF StreamInv
  <2>2. StreamTypeOK'
    <3>1. written \in Seq(Payload) /\ m[2] \in Seq(Payload)
      BY MessageType DEF StreamInv, StreamTypeOK
    <3>2. written' \in Seq(Payload)
      BY <1>3, <3>1, ConcatProperties
    <3>3. out' \in Bytes
      BY <1>3, <2>1, Concat
    <3> QED
      BY <1>1, <3>2, <3>3 DEF StreamInv, StreamTypeOK, Bytes
  <2>4. ASSUME clean PROVE Sent(decoder.published, written')
    <3>1. PICK p \in Bytes : w = pub \o p
      BY <2>1, <2>4 DEF StreamInv, Sent
    <3>2. Regrouped(pub, p, x) /\ p \o x \in Bytes
      BY Regroup, Concat
    <3> QED
      BY <1>3, <2>1, <3>1, <3>2 DEF Sent, Regrouped
  <2>5. ASSUME clean, state = "Handshaking" PROVE <<out', written'>> \in Framed
    <3>1. PICK q \in Framed : q[1] = out /\ q[2] = written
      BY <2>5 DEF StreamInv
    <3> QED
      BY <1>3, <3>1, FramedAdd
  <2>6. Unread(decoder.recv, out') = Unread(decoder.recv, out) \o Bits(m)
    <3>1. Regrouped(r, o, b)
      BY Regroup
    <3> QED
      BY <1>3, <2>1, <3>1 DEF Unread, Regrouped
  <2>7. ASSUME clean, state = "Registering"
        PROVE  <<Unread(decoder.recv, out'), written'>> \in Framed
    <3>1. PICK q \in Framed : q[1] = Unread(decoder.recv, out) /\ q[2] = written
      BY <2>7 DEF StreamInv
    <3> QED
      BY <1>3, <2>6, <3>1, FramedAdd
  <2>8. ASSUME clean, state = "Running"
        PROVE  Rest(decoder.size, decoder.recv, out', decoder.published, written')
    <3>1. PICK p \in Bytes : written = decoder.published \o p
                             /\ Pending(decoder.size, Unread(decoder.recv, out), p)
      BY <2>8 DEF StreamInv, Rest
    <3>2. Unread(decoder.recv, out) \in Bytes
      BY StreamTypes DEF StreamInv
    <3>3. Pending(decoder.size, Unread(decoder.recv, out'), p \o m[2])
      BY <2>6, <3>1, <3>2, PendingAdd
    <3>4. written' = decoder.published \o (p \o m[2])
      <4>1. Regrouped(pub, p, x)
        BY Regroup
      <4> QED
        BY <1>3, <2>1, <3>1, <4>1 DEF Regrouped
    <3>5. p \o m[2] \in Bytes
      BY <2>1, Concat
    <3> QED
      BY <3>3, <3>4, <3>5 DEF Rest
  <2> QED
    BY <1>1, <2>2, <2>4, <2>5, <2>7, <2>8 DEF StreamInv
<1> QED
  BY <1>2, <1>3 DEF transfer_sub_raw_data, Bits

LEMMA Split ==
    ASSUME NEW s \in Bytes, NEW k \in 0 .. Len(s)
    PROVE  \E head, tail \in Bytes :
             /\ head = SubSeq(s, 1, k) /\ tail = SubSeq(s, k + 1, Len(s)) /\ s = head \o tail
             /\ Len(head) = k
<1>1. Len(s) \in Nat /\ k \in Nat /\ k <= Len(s)
  BY LenProperties DEF Bytes
<1>2. PICK m \in 1 .. Len(s) + 1 : m = 1
  BY <1>1
<1>3. PICK n \in Nat \ {0} : n = k + 1
  BY <1>1
<1>4. PICK head : head = SubSeq(s, m, k)
  OBVIOUS
<1>5. PICK tail : tail = SubSeq(s, k + 1, Len(s))
  OBVIOUS
<1>6. head \in Bytes /\ Len(head) = k
  <2>1. SubSeq(s, 1, k) \in Bytes /\ Len(SubSeq(s, 1, k)) = IF 1 <= k THEN k ELSE 0
    BY <1>1, BytesUpTo
  <2>2. head = SubSeq(s, 1, k)
    BY <1>2, <1>4
  <2> QED
    BY <1>1, <2>1, <2>2
<1>7. tail \in Bytes
  BY <1>3, <1>5, BytesFrom
<1>8. s = head \o tail
  <2>1. s \in Seq(Symbol) /\ k \in m - 1 .. Len(s) /\ Len(s) \in k .. Len(s)
    BY <1>1, <1>2 DEF Bytes
  <2>2. SubSeq(s, m, k) \o SubSeq(s, k + 1, Len(s)) = SubSeq(s, m, Len(s))
    BY <2>1, ConcatAdjacentSubSeq
  <2>3. SubSeq(s, m, Len(s)) = s
    BY <1>2, <2>1, SubSeqFull
  <2> QED
    BY <1>4, <1>5, <2>2, <2>3
<1> QED
  BY <1>2, <1>4, <1>5, <1>6, <1>7, <1>8

\* A segment: the decoder d with its bytes, and the bytes left over.
Segment(k, d, tail) ==
    /\ out' = tail /\ (tail = <<>> <=> k = Len(out))
    /\ d.size = decoder.size /\ d.published = decoder.published /\ d.ok /\ d.recv # <<>>
    /\ d.recv \o tail = Unread(decoder.recv, out)
    /\ state = "Registering" => decoder' = d /\ state' = "Registering"
    /\ state # "Registering" =>
         /\ state = "Running"
         /\ IF publish_data_from_chunk[d].ok
            THEN decoder' = publish_data_from_chunk[d] /\ state' = "Running"
            ELSE /\ decoder' = [publish_data_from_chunk[d] EXCEPT !.ok = TRUE]
                 /\ state' = "WaitingRetry"
    /\ UNCHANGED <<alive, written, clean, messages, breaks>>

LEMMA SegmentArrives ==
    ASSUME StreamInv, NEW k \in 1 .. Len(out), ReadCallback(k)
    PROVE  \E d \in Decoder, tail \in Bytes : Segment(k, d, tail)
<1>1. PICK o \in Bytes, r \in Bytes : o = out /\ r = decoder.recv
  BY StreamTypes DEF StreamInv
<1>2. Len(o) \in Nat /\ k \in Nat /\ k # 0 /\ k <= Len(o) /\ k \in 0 .. Len(o)
  BY <1>1, LenProperties DEF Bytes
<1>3. PICK head \in Bytes, tail \in Bytes :
        /\ head = SubSeq(o, 1, k) /\ tail = SubSeq(o, k + 1, Len(o)) /\ o = head \o tail
        /\ Len(head) = k
  BY <1>2, Split
<1>4. PICK h \in Bytes : h = r \o head /\ Len(h) = Len(r) + k
  <2>1. r \o head \in Bytes /\ Len(r \o head) = Len(r) + Len(head)
    BY Concat
  <2> QED
    BY <1>3, <2>1
<1>5. h # <<>>
  <2>1. Len(r) \in Nat
    BY LenProperties DEF Bytes
  <2>2. Len(h) # 0
    BY <1>2, <1>4, <2>1
  <2> QED
    BY <2>2, EmptySeq
<1>6. h \o tail = r \o o
  <2>1. Regrouped(r, head, tail)
    BY Regroup
  <2> QED
    BY <1>3, <1>4, <2>1 DEF Regrouped
<1>7. tail = <<>> <=> k = Len(o)
  <2>1. Len(o) = k + Len(tail) /\ Len(tail) \in Nat
    <3>1. Len(head \o tail) = Len(head) + Len(tail)
      BY Concat
    <3>2. Len(tail) \in Nat
      BY LenProperties DEF Bytes
    <3> QED
      BY <1>3, <3>1, <3>2
  <2>2. tail = <<>> <=> Len(tail) = 0
    BY EmptySeq DEF Bytes
  <2> QED
    BY <1>2, <2>1, <2>2
<1>8. PICK d : d = [decoder EXCEPT !.recv = h]
  OBVIOUS
<1>9. /\ d \in Decoder /\ d.recv = h /\ d.size = decoder.size
      /\ d.published = decoder.published /\ d.ok = decoder.ok
  <2>1. decoder \in Decoder
    BY StreamTypes DEF StreamInv
  <2> QED
    BY <1>8, <2>1 DEF Decoder, Bytes
<1>10. d = [decoder EXCEPT !.recv = decoder.recv \o SubSeq(out, 1, k)]
  BY <1>1, <1>3, <1>4, <1>8
<1>11. out' = tail /\ UNCHANGED <<alive, written, clean, messages, breaks>>
       /\ state \in {"Registering", "Running"}
  BY <1>1, <1>3 DEF ReadCallback
<1>12. state = "Registering" => decoder' = d /\ state' = "Registering"
  BY <1>10 DEF ReadCallback
<1>13. PICK e : e = publish_data_from_chunk[d]
  OBVIOUS
<1>14. state = "Running" => IF e.ok THEN decoder' = e /\ state' = "Running"
                            ELSE decoder' = [e EXCEPT !.ok = TRUE] /\ state' = "WaitingRetry"
  BY <1>10, <1>13 DEF ReadCallback, schedule_retry
<1>15. Segment(k, d, tail)
  BY <1>1, <1>5, <1>6, <1>7, <1>9, <1>11, <1>12, <1>13, <1>14 DEF Segment, Unread, StreamInv
<1> QED
  BY <1>9, <1>15

\* What the decoder has published goes on with what the rest of the stream holds.
LEMMA SegmentTaken ==
    ASSUME StreamInv, NEW k \in 1 .. Len(out), NEW d \in Decoder, NEW tail \in Bytes,
           Segment(k, d, tail), clean, state = "Running"
    PROVE  Taken(publish_data_from_chunk[d], tail, written)
<1>1. PICK p \in Bytes : written = decoder.published \o p
                         /\ Pending(decoder.size, Unread(decoder.recv, out), p)
  BY DEF StreamInv, Rest
<1>2. d.ok /\ d.recv # <<>> /\ Pending(d.size, d.recv \o tail, p) /\ d.published = decoder.published
  BY <1>1 DEF Segment
<1>3. Taken(publish_data_from_chunk[d], tail, d.published \o p)
  BY <1>2, AllTaken
<1> QED
  BY <1>1, <1>2, <1>3

LEMMA ReadInv ==
    ASSUME StreamInv, NEW k \in 1 .. Len(out), ReadCallback(k)
    PROVE  StreamInv'
<1>1. PICK d \in Decoder, tail \in Bytes : Segment(k, d, tail)
  BY SegmentArrives
<1>2. PICK e \in Decoder : e = publish_data_from_chunk[d]
  BY DecoderStep
<1>3. UNCHANGED <<alive, written, clean, messages, breaks>> /\ out' = tail
  BY <1>1 DEF Segment
<1>4. ASSUME decoder' \in Decoder, state' \in {"Registering", "Running", "WaitingRetry"}
      PROVE  StreamTypeOK'
  BY <1>3, <1>4 DEF StreamInv, StreamTypeOK, Bytes
<1>5. CASE state = "Registering"
  <2>1. decoder' = d /\ state' = "Registering" /\ d.ok
        /\ d.size = decoder.size /\ d.published = decoder.published
        /\ Unread(d.recv, tail) = Unread(decoder.recv, out)
    BY <1>1, <1>5 DEF Segment, Unread
  <2>2. StreamTypeOK'
    BY <1>4, <2>1
  <2>3. Unread(decoder'.recv, out') = Unread(decoder.recv, out)
    BY <1>3, <2>1
  <2> QED
    BY <1>3, <1>5, <2>1, <2>2, <2>3 DEF StreamInv
<1>6. CASE state # "Registering"
  <2>1. /\ state = "Running"
        /\ IF e.ok THEN decoder' = e /\ state' = "Running"
           ELSE decoder' = [e EXCEPT !.ok = TRUE] /\ state' = "WaitingRetry"
    BY <1>1, <1>2, <1>6 DEF Segment
  <2>2. /\ decoder' \in Decoder /\ decoder'.ok /\ decoder'.published = e.published
        /\ e.ok => decoder' = e
    BY <2>1 DEF Decoder
  <2>3. StreamTypeOK'
    BY <1>4, <2>1, <2>2
  <2>4. clean => Taken(e, tail, written)
    BY <1>1, <1>2, <2>1, SegmentTaken
  <2>5. clean => Sent(e.published, written)
    BY <2>4 DEF Taken, Sent
  <2>6. clean /\ e.ok => Rest(e.size, e.recv, tail, e.published, written)
    BY <2>4 DEF Taken, Rest, Unread
  <2>7. state' = "Running" => decoder' = e /\ e.ok
    BY <2>1
  <2>8. state' \in {"Running", "WaitingRetry"}
    BY <2>1
  <2> QED
    BY <1>3, <2>2, <2>3, <2>5, <2>6, <2>7, <2>8 DEF StreamInv
<1> QED
  BY <1>5, <1>6

LEMMA HandshakeInv ==
    ASSUME StreamInv, NEW k \in 0 .. Len(out), handle_handshake(k)
    PROVE  StreamInv'
<1>1. PICK o \in Bytes : o = out
  BY StreamTypes DEF StreamInv
<1>2. PICK tail \in Bytes : tail = SubSeq(o, k + 1, Len(o)) /\ (k = 0 => tail = o)
  <2>1. Len(o) \in Nat /\ k \in 0 .. Len(o)
    BY <1>1, LenProperties DEF Bytes
  <2>2. PICK head \in Bytes, t \in Bytes :
          /\ head = SubSeq(o, 1, k) /\ t = SubSeq(o, k + 1, Len(o)) /\ o = head \o t
          /\ Len(head) = k
    BY <2>1, Split
  <2>3. k = 0 => head = <<>>
    BY <2>2, EmptySeq DEF Bytes
  <2>4. k = 0 => t = o
    BY <2>2, <2>3, Concat
  <2> QED
    BY <2>2, <2>4
<1>3. /\ state = "Handshaking" /\ out' = tail /\ clean' = (clean /\ k = 0)
      /\ state' = (IF decoder.recv = <<>> THEN "Registering" ELSE "WaitingRetry")
      /\ decoder' = [decoder EXCEPT !.recv = <<>>]
      /\ UNCHANGED <<alive, written, messages, breaks>>
  BY <1>1, <1>2 DEF handle_handshake
<1>4. /\ decoder' \in Decoder /\ decoder'.recv = <<>> /\ decoder'.ok = decoder.ok
      /\ decoder'.size = decoder.size /\ decoder'.published = decoder.published
  <2>1. decoder \in Decoder
    BY StreamTypes DEF StreamInv
  <2> QED
    BY <1>3, <2>1, EmptySeq DEF Decoder
<1>5. clean' \in BOOLEAN /\ (clean' => clean /\ out' = out)
  BY <1>1, <1>2, <1>3
<1>6. state' \in {"Registering", "WaitingRetry"}
  BY <1>3
<1>7. StreamTypeOK'
  BY <1>3, <1>4, <1>5, <1>6 DEF StreamInv, StreamTypeOK, Bytes
<1>8. clean' => Unread(decoder'.recv, out') = out
  BY <1>1, <1>4, <1>5, Concat DEF Unread
<1> QED
  BY <1>3, <1>4, <1>5, <1>6, <1>7, <1>8 DEF StreamInv

LEMMA RegisterInv == ASSUME StreamInv, CasterRegisterCallback PROVE StreamInv'
<1>1. state = "Registering" /\ state' = "Running"
      /\ UNCHANGED <<alive, out, written, decoder, clean, messages, breaks>>
  BY DEF CasterRegisterCallback
<1>2. StreamTypeOK'
  BY <1>1 DEF StreamInv, StreamTypeOK
<1>3. clean => Rest(decoder.size, decoder.recv, out, decoder.published, written)
  <2>1. SUFFICES ASSUME clean PROVE Rest(decoder.size, decoder.recv, out, decoder.published, written)
    OBVIOUS
  <2>2. /\ <<Unread(decoder.recv, out), written>> \in Framed
        /\ decoder.size = 0 /\ decoder.published = <<>>
    BY <1>1, <2>1 DEF StreamInv
  <2>3. written \in Bytes /\ written = <<>> \o written
    BY StreamTypes, Concat DEF StreamInv
  <2> QED
    BY <2>2, <2>3 DEF Rest, Pending
<1> QED
  BY <1>1, <1>2, <1>3 DEF StreamInv

LEMMA EventInv == ASSUME StreamInv, EventCallback PROVE StreamInv'
<1>1. state' = "WaitingRetry" /\ decoder' = [decoder EXCEPT !.ok = TRUE]
      /\ UNCHANGED <<alive, out, written, clean, messages>>
  BY DEF EventCallback, schedule_retry
<1>2. decoder' \in Decoder /\ decoder'.ok /\ decoder'.published = decoder.published
  <2>1. decoder \in Decoder
    BY StreamTypes DEF StreamInv
  <2> QED
    BY <1>1, <2>1 DEF Decoder
<1>3. breaks' \in 0 .. MaxBreaks
  <2>1. breaks \in 0 .. MaxBreaks
    BY DEF StreamInv, StreamTypeOK
  <2>2. breaks' = breaks \/ (breaks < MaxBreaks /\ breaks' = breaks + 1)
    <3>1. IF alive THEN breaks < MaxBreaks /\ breaks' = breaks + 1 ELSE breaks' = breaks
      BY DEF EventCallback
    <3> QED
      BY <3>1
  <2>3. MaxBreaks \in Nat
    BY StreamAssumption
  <2> QED
    BY <2>1, <2>2, <2>3
<1>4. StreamTypeOK'
  BY <1>1, <1>2, <1>3 DEF StreamInv, StreamTypeOK
<1> QED
  BY <1>1, <1>2, <1>4 DEF StreamInv

LEMMA TimeoutInv == ASSUME StreamInv, TimeoutCallback PROVE StreamInv'
<1>1. /\ state' = "Handshaking" /\ alive' = TRUE /\ out' = <<>> /\ written' = <<>>
      /\ decoder' = [decoder EXCEPT !.published = <<>>] /\ clean' = (decoder.size = 0)
      /\ UNCHANGED <<messages, breaks>>
  BY DEF TimeoutCallback
<1>2. /\ decoder' \in Decoder /\ decoder'.ok = decoder.ok
      /\ decoder'.published = <<>> /\ decoder'.size = decoder.size
  <2>1. decoder \in Decoder
    BY StreamTypes DEF StreamInv
  <2> QED
    BY <1>1, <2>1, EmptySeq DEF Decoder
<1>3. <<>> \in Seq(Symbol) /\ <<>> \in Seq(Payload) /\ <<>> \in Bytes
  BY EmptySeq, Concat
<1>4. StreamTypeOK'
  <2>1. clean' \in BOOLEAN /\ alive' \in BOOLEAN
    BY <1>1
  <2> QED
    BY <1>1, <1>2, <1>3, <2>1 DEF StreamInv, StreamTypeOK
<1>5. <<out', written'>> \in Framed
  BY <1>1, FramedClosed DEF Closed
<1>6. Sent(decoder'.published, written')
  BY <1>1, <1>2, <1>3, Concat DEF Sent
<1>7. clean' => decoder'.size = 0
  BY <1>1, <1>2
<1> QED
  BY <1>1, <1>2, <1>4, <1>5, <1>6, <1>7 DEF StreamInv

LEMMA StreamStep == StreamInv /\ [StreamNext]_streamVars => StreamInv'
<1> SUFFICES ASSUME StreamInv, [StreamNext]_streamVars PROVE StreamInv'
  OBVIOUS
<1>1. CASE \E m \in Message : transfer_sub_raw_data(m)
  BY <1>1, TransferInv
<1>2. CASE \E k \in 1 .. Len(out) : ReadCallback(k)
  BY <1>2, ReadInv
<1>3. CASE \E k \in 0 .. Len(out) : handle_handshake(k)
  BY <1>3, HandshakeInv
<1>4. CASE CasterRegisterCallback
  BY <1>4, RegisterInv
<1>5. CASE EventCallback
  BY <1>5, EventInv
<1>6. CASE TimeoutCallback
  BY <1>6, TimeoutInv
<1>7. CASE UNCHANGED streamVars
  BY <1>7 DEF StreamInv, StreamTypeOK, streamVars
<1> QED
  BY <1>1, <1>2, <1>3, <1>4, <1>5, <1>6, <1>7 DEF StreamNext

-----------------------------------------------------------------------------
(* The theorems.                                                           *)

\* What was arranged above holds in every state.
THEOREM StreamInvariant == StreamSpec => []StreamInv
<1> QED
  BY StreamInitInv, StreamStep, PTL DEF StreamSpec

\* The buffers, what was published and the states of both sessions keep their
\* types through every call: publish_data_from_chunk returns, with a decoder.
THEOREM StreamTypeCorrect == StreamSpec => []StreamTypeOK
<1>1. StreamInv => StreamTypeOK
  BY DEF StreamInv
<1> QED
  BY <1>1, StreamInvariant, PTL

\* publish_data_from_chunk publishes the data that were sent, in their order and
\* without the framing, however ReadCallback gets the bytes, for any messages, any
\* lengths of the headers and any number of lost connections; for the connections
\* PublishedIsSent speaks of.
THEOREM PublishedIsSentAlways == StreamSpec => []PublishedIsSent
<1>1. ASSUME StreamInv PROVE PublishedIsSent
  <2>1. clean => Sent(decoder.published, written)
    BY <1>1 DEF StreamInv
  <2>2. decoder.published \in Bytes /\ written \in Bytes
    BY <1>1, StreamTypes DEF StreamInv
  <2> QED
    BY <2>1, <2>2, SentIsPrefix DEF PublishedIsSent
<1> QED
  BY <1>1, StreamInvariant, PTL

\* When a segment brings the rest of the stream, ReadCallback has published all of
\* it and the session goes on.
THEOREM AllIsPublishedAlways == StreamSpec => AllIsPublished
<1>1. ASSUME StreamInv, StreamNext, state = "Running", clean, out # <<>>, out' = <<>>
      PROVE  state' = "Running" /\ decoder'.published = written
  <2>1. ASSUME NEW m \in Message, transfer_sub_raw_data(m) PROVE FALSE
    <3>1. PICK o \in Bytes, b \in Bytes : o = out /\ b = Bits(m)
      BY <1>1, BitsType, StreamTypes DEF StreamInv
    <3>2. out' = out \/ out' = o \o b
      BY <2>1, <3>1 DEF transfer_sub_raw_data, Bits
    <3>3. o \o b # <<>>
      <4>1. Len(o \o b) = Len(o) + Len(b)
        BY Concat
      <4>2. Len(o) \in Nat /\ Len(b) \in Nat /\ Len(o) # 0
        BY <1>1, <3>1, LenProperties, EmptySeq DEF Bytes
      <4>3. Len(o \o b) # 0
        BY <4>1, <4>2
      <4> QED
        BY <4>3, EmptySeq
    <3> QED
      BY <1>1, <3>2, <3>3
  <2>2. ASSUME NEW k \in 1 .. Len(out), ReadCallback(k)
        PROVE  state' = "Running" /\ decoder'.published = written
    <3>1. PICK d \in Decoder, tail \in Bytes : Segment(k, d, tail)
      BY <1>1, <2>2, SegmentArrives
    <3>2. tail = <<>>
      BY <1>1, <3>1 DEF Segment
    <3>3. Taken(publish_data_from_chunk[d], tail, written)
      BY <1>1, <2>2, <3>1, SegmentTaken
    <3>4. publish_data_from_chunk[d].ok /\ publish_data_from_chunk[d].published = written
      BY <3>2, <3>3 DEF Taken
    <3> QED
      BY <1>1, <3>1, <3>4 DEF Segment
  <2>3. ASSUME \/ \E k \in 0 .. Len(out) : handle_handshake(k)
               \/ CasterRegisterCallback \/ TimeoutCallback
        PROVE  FALSE
    BY <1>1, <2>3 DEF handle_handshake, CasterRegisterCallback, TimeoutCallback
  <2>4. ASSUME EventCallback PROVE FALSE
    BY <1>1, <2>4 DEF EventCallback
  <2> QED
    BY <1>1, <2>1, <2>2, <2>3, <2>4 DEF StreamNext
<1>2. StreamInv /\ [StreamNext]_streamVars
      => [state = "Running" /\ clean /\ out # <<>> /\ out' = <<>>
          => state' = "Running" /\ decoder'.published = written]_streamVars
  BY <1>1
<1> QED
  BY <1>2, StreamInvariant, PTL DEF StreamSpec, AllIsPublished
=============================================================================
