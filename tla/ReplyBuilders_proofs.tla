-------------------------- MODULE ReplyBuilders_proofs --------------------------
(***************************************************************************)
(* What a client reads in the buffer that buildBuffer writes, and in the   *)
(* lists that getCommaSeparatedList makes.                                 *)
(***************************************************************************)
EXTENDS ReplyBuilders, Accumulation_proofs

-----------------------------------------------------------------------------
(* The pieces of a sequence between separators. *)

\* A piece and its bounds.
LEMMA PieceIn ==
  ASSUME NEW s, NEW sep, NEW m \in 1 .. Len(s), NEW n \in 1 .. Len(s), IsPiece(s, sep, m, n)
  PROVE  SubSeq(s, m, n) \in Pieces(s, sep)
<1> DEFINE p == <<m, n>>
<1>1. p \in (1 .. Len(s)) \X (1 .. Len(s)) /\ p[1] = m /\ p[2] = n
  OBVIOUS
<1> HIDE DEF p
<1> QED
  BY <1>1 DEF Pieces

LEMMA PieceOut ==
  ASSUME NEW s, NEW sep, NEW x \in Pieces(s, sep)
  PROVE  \E m \in 1 .. Len(s), n \in 1 .. Len(s) : IsPiece(s, sep, m, n) /\ x = SubSeq(s, m, n)
<1>1. PICK p \in (1 .. Len(s)) \X (1 .. Len(s)) :
        IsPiece(s, sep, p[1], p[2]) /\ x = SubSeq(s, p[1], p[2])
  BY Zenon DEF Pieces
<1>2. p[1] \in 1 .. Len(s) /\ p[2] \in 1 .. Len(s)
  OBVIOUS
<1> QED
  BY <1>1, <1>2

\* The elements that two sequences have in common determine a part of them.
LEMMA SamePart ==
  ASSUME NEW S, NEW s \in Seq(S), NEW t \in Seq(S), NEW m \in Nat, NEW n \in Nat,
         1 <= m, m <= n, n <= Len(s), n <= Len(t), \A k \in m .. n : s[k] = t[k]
  PROVE  SubSeq(s, m, n) = SubSeq(t, m, n)
<1>1. /\ SubSeq(s, m, n) \in Seq(S) /\ SubSeq(t, m, n) \in Seq(S)
      /\ Len(SubSeq(s, m, n)) = n - m + 1 /\ Len(SubSeq(t, m, n)) = n - m + 1
      /\ \A k \in 1 .. n - m + 1 : SubSeq(s, m, n)[k] = s[m + k - 1]
      /\ \A k \in 1 .. n - m + 1 : SubSeq(t, m, n)[k] = t[m + k - 1]
  BY SubSeqProperties
<1> DEFINE x == SubSeq(s, m, n)
           y == SubSeq(t, m, n)
<1>2. \A k \in 1 .. n - m + 1 : x[k] = y[k]
  <2> TAKE k \in 1 .. n - m + 1
  <2>1. m + k - 1 \in m .. n
    OBVIOUS
  <2> QED
    BY <1>1, <2>1
<1> HIDE DEF x, y
<1> QED
  BY <1>1, <1>2, SeqEqual DEF x, y

LEMMA PiecesOfNothing ==
  ASSUME NEW sep PROVE Pieces(<<>>, sep) = {}
<1> DEFINE s == <<>>
<1>1. Len(s) = 0
  BY EmptySeq
<1> HIDE DEF s
<1> QED
  BY <1>1, PieceOut DEF s

\* A separator at the end makes no piece.
LEMMA PiecesEnd ==
  ASSUME NEW S, NEW s \in Seq(S), NEW sep \in S
  PROVE  Pieces(Append(s, sep), sep) = Pieces(s, sep)
<1> DEFINE t == Append(s, sep)
<1>1. /\ t \in Seq(S) /\ Len(s) \in Nat /\ Len(t) = Len(s) + 1
      /\ \A k \in 1 .. Len(s) : t[k] = s[k]
      /\ t[Len(s) + 1] = sep
  OBVIOUS
<1> HIDE DEF t
<1>2. ASSUME NEW m \in 1 .. Len(s), NEW n \in 1 .. Len(s)
      PROVE  IsPiece(s, sep, m, n) <=> IsPiece(t, sep, m, n)
  <2>1. m = 1 \/ m - 1 \in 1 .. Len(s)
    BY <1>1
  <2>2. n = Len(s) \/ n + 1 \in 1 .. Len(s)
    BY <1>1
  <2>3. \A k \in m .. n : k \in 1 .. Len(s)
    BY <1>1
  <2> QED
    BY <1>1, <2>1, <2>2, <2>3 DEF IsPiece
<1>3. ASSUME NEW m \in 1 .. Len(s), NEW n \in 1 .. Len(s), m <= n
      PROVE  SubSeq(s, m, n) = SubSeq(t, m, n)
  BY <1>1, <1>3, SamePart
<1>4. ASSUME NEW m \in 1 .. Len(t), NEW n \in 1 .. Len(t), IsPiece(t, sep, m, n)
      PROVE  m \in 1 .. Len(s) /\ n \in 1 .. Len(s)
  <2>1. n # Len(s) + 1
    <3>1. n \in m .. n
      BY <1>4 DEF IsPiece
    <3> QED
      BY <1>1, <1>4, <3>1 DEF IsPiece
  <2> QED
    BY <1>1, <1>4, <2>1 DEF IsPiece
<1>5. ASSUME NEW x \in Pieces(t, sep) PROVE x \in Pieces(s, sep)
  <2>1. PICK m \in 1 .. Len(t), n \in 1 .. Len(t) : IsPiece(t, sep, m, n) /\ x = SubSeq(t, m, n)
    BY <1>5, PieceOut
  <2>2. m \in 1 .. Len(s) /\ n \in 1 .. Len(s) /\ m <= n
    BY <1>4, <2>1 DEF IsPiece
  <2> QED
    <3>1. IsPiece(s, sep, m, n) /\ x = SubSeq(s, m, n)
      BY <1>2, <1>3, <2>1, <2>2
    <3> QED
      BY <2>2, <3>1, PieceIn
<1>6. ASSUME NEW x \in Pieces(s, sep) PROVE x \in Pieces(t, sep)
  <2>1. PICK m \in 1 .. Len(s), n \in 1 .. Len(s) : IsPiece(s, sep, m, n) /\ x = SubSeq(s, m, n)
    BY <1>6, PieceOut
  <2>2. m \in 1 .. Len(t) /\ n \in 1 .. Len(t) /\ m <= n
    BY <1>1, <2>1 DEF IsPiece
  <2> QED
    <3>1. IsPiece(t, sep, m, n) /\ x = SubSeq(t, m, n)
      BY <1>2, <1>3, <2>1, <2>2
    <3> QED
      BY <2>2, <3>1, PieceIn
<1> QED
  BY <1>5, <1>6 DEF t

\* Elements that are no separators are one piece.
LEMMA PiecesOne ==
  ASSUME NEW S, NEW body \in Seq(S), NEW sep, Len(body) > 0,
         \A k \in 1 .. Len(body) : body[k] # sep
  PROVE  Pieces(body, sep) = {body}
<1>1. Len(body) \in Nat
  OBVIOUS
<1>2. SubSeq(body, 1, Len(body)) = body
  BY SubSeqFull
<1>3. IsPiece(body, sep, 1, Len(body))
  BY <1>1 DEF IsPiece
<1>4. ASSUME NEW m \in 1 .. Len(body), NEW n \in 1 .. Len(body), IsPiece(body, sep, m, n)
      PROVE  m = 1 /\ n = Len(body)
  <2>1. m = 1 \/ m - 1 \in 1 .. Len(body)
    BY <1>1
  <2>2. n = Len(body) \/ n + 1 \in 1 .. Len(body)
    BY <1>1
  <2> QED
    BY <1>4, <2>1, <2>2 DEF IsPiece
<1>5. body \in Pieces(body, sep)
  <2>1. 1 \in 1 .. Len(body) /\ Len(body) \in 1 .. Len(body)
    BY <1>1
  <2> QED
    BY <1>2, <1>3, <2>1, PieceIn
<1>6. ASSUME NEW x \in Pieces(body, sep) PROVE x = body
  <2>1. PICK m \in 1 .. Len(body), n \in 1 .. Len(body) :
          IsPiece(body, sep, m, n) /\ x = SubSeq(body, m, n)
    BY <1>6, PieceOut
  <2> QED
    BY <1>2, <1>4, <2>1
<1> QED
  BY <1>5, <1>6

\* Elements that are no separators, behind a separator, are one piece more.
LEMMA PiecesMore ==
  ASSUME NEW S, NEW s \in Seq(S), NEW sep \in S, NEW body \in Seq(S), Len(body) > 0,
         \A k \in 1 .. Len(body) : body[k] # sep
  PROVE  Pieces(Append(s, sep) \o body, sep) = Pieces(s, sep) \cup {body}
<1> DEFINE t == Append(s, sep) \o body
<1>1. /\ t \in Seq(S) /\ Len(s) \in Nat /\ Len(body) \in Nat /\ Len(t) = Len(s) + 1 + Len(body)
      /\ \A k \in 1 .. Len(s) : t[k] = s[k]
      /\ t[Len(s) + 1] = sep
      /\ \A k \in 1 .. Len(body) : t[Len(s) + 1 + k] = body[k]
  OBVIOUS
<1> HIDE DEF t
<1>2. ASSUME NEW m \in 1 .. Len(s), NEW n \in 1 .. Len(s)
      PROVE  IsPiece(s, sep, m, n) <=> IsPiece(t, sep, m, n)
  <2>1. m = 1 \/ m - 1 \in 1 .. Len(s)
    BY <1>1
  <2>2. n = Len(s) \/ n + 1 \in 1 .. Len(s)
    BY <1>1
  <2>3. \A k \in m .. n : k \in 1 .. Len(s) /\ t[k] = s[k]
    BY <1>1
  <2>4. (m = 1 \/ t[m - 1] = sep) <=> (m = 1 \/ s[m - 1] = sep)
    BY <1>1, <2>1
  <2>5. n = Len(s) \/ t[n + 1] = s[n + 1]
    BY <1>1, <2>2
  <2>6. (n = Len(t) \/ t[n + 1] = sep) <=> (n = Len(s) \/ s[n + 1] = sep)
    <3>1. n # Len(t) /\ t[Len(s) + 1] = sep
      BY <1>1
    <3> QED
      BY <2>5, <3>1
  <2> QED
    BY <2>3, <2>4, <2>6 DEF IsPiece
<1>3. ASSUME NEW m \in 1 .. Len(s), NEW n \in 1 .. Len(s), m <= n
      PROVE  SubSeq(s, m, n) = SubSeq(t, m, n)
  <2>1. /\ m \in Nat /\ n \in Nat /\ 1 <= m /\ n <= Len(s) /\ n <= Len(t)
        /\ \A k \in m .. n : s[k] = t[k]
    BY <1>1
  <2> QED
    BY <1>1, <1>3, <2>1, SamePart
<1>4. \A k \in Len(s) + 2 .. Len(t) : t[k] # sep
  <2> TAKE k \in Len(s) + 2 .. Len(t)
  <2>1. k - Len(s) - 1 \in 1 .. Len(body)
    BY <1>1
  <2>2. t[Len(s) + 1 + (k - Len(s) - 1)] = body[k - Len(s) - 1]
    BY <1>1, <2>1
  <2>3. Len(s) + 1 + (k - Len(s) - 1) = k
    BY <1>1
  <2> QED
    BY <2>1, <2>2, <2>3
<1>5. SubSeq(t, Len(s) + 2, Len(t)) = body
  <2> DEFINE x == SubSeq(t, Len(s) + 2, Len(t))
  <2>0. Len(s) + 2 \in 1 .. Len(t) + 1 /\ Len(t) \in 0 .. Len(t) /\ Len(s) + 2 <= Len(t)
        /\ Len(t) - (Len(s) + 2) + 1 = Len(body)
    BY <1>1
  <2>1. x \in Seq(S) /\ Len(x) = Len(body)
        /\ \A k \in 1 .. Len(body) : x[k] = t[Len(s) + 2 + k - 1]
    BY <1>1, <2>0, SubSeqProperties
  <2> HIDE DEF x
  <2>2. \A k \in 1 .. Len(body) : x[k] = body[k]
    <3> TAKE k \in 1 .. Len(body)
    <3>1. Len(s) + 2 + k - 1 = Len(s) + 1 + k
      BY <1>1
    <3> QED
      BY <1>1, <2>1, <3>1
  <2>3. x = body
    BY <2>1, <2>2, SeqEqual
  <2> QED
    BY <2>3 DEF x
<1>6. ASSUME NEW m \in 1 .. Len(t), NEW n \in 1 .. Len(t), IsPiece(t, sep, m, n)
      PROVE  \/ m \in 1 .. Len(s) /\ n \in 1 .. Len(s)
             \/ m = Len(s) + 2 /\ n = Len(t)
  <2>1. ~(Len(s) + 1 \in m .. n)
    BY <1>1, <1>6 DEF IsPiece
  <2>2. CASE n <= Len(s)
    BY <1>1, <1>6, <2>2 DEF IsPiece
  <2>3. CASE m >= Len(s) + 2
    <3>1. m = Len(s) + 2
      <4>1. m = Len(s) + 2 \/ m - 1 \in Len(s) + 2 .. Len(t)
        BY <1>1, <2>3
      <4> QED
        BY <1>1, <1>4, <1>6, <2>3, <4>1 DEF IsPiece
    <3>2. n = Len(t)
      <4>1. n = Len(t) \/ n + 1 \in Len(s) + 2 .. Len(t)
        <5>1. m <= n
          BY <1>6 DEF IsPiece
        <5>2. n \in Nat /\ m \in Nat /\ Len(t) \in Nat /\ Len(s) \in Nat /\ n <= Len(t)
          BY <1>1
        <5> QED
          BY <2>3, <5>1, <5>2
      <4> QED
        BY <1>1, <1>4, <1>6, <4>1 DEF IsPiece
    <3> QED
      BY <3>1, <3>2
  <2> QED
    BY <1>1, <1>6, <2>1, <2>2, <2>3 DEF IsPiece
<1>7. IsPiece(t, sep, Len(s) + 2, Len(t))
  BY <1>1, <1>4 DEF IsPiece
<1>8. ASSUME NEW x \in Pieces(t, sep) PROVE x \in Pieces(s, sep) \cup {body}
  <2>1. PICK m \in 1 .. Len(t), n \in 1 .. Len(t) : IsPiece(t, sep, m, n) /\ x = SubSeq(t, m, n)
    BY <1>8, PieceOut
  <2>2. CASE m \in 1 .. Len(s) /\ n \in 1 .. Len(s)
    <3>1. m <= n
      BY <2>1 DEF IsPiece
    <3> QED
      <4>1. IsPiece(s, sep, m, n) /\ x = SubSeq(s, m, n)
        BY <1>2, <1>3, <2>1, <2>2, <3>1
      <4> QED
        BY <2>2, <4>1, PieceIn
  <2>3. CASE m = Len(s) + 2 /\ n = Len(t)
    BY <1>5, <2>1, <2>3
  <2> QED
    BY <1>6, <2>1, <2>2, <2>3
<1>9. ASSUME NEW x \in Pieces(s, sep) PROVE x \in Pieces(t, sep)
  <2>1. PICK m \in 1 .. Len(s), n \in 1 .. Len(s) : IsPiece(s, sep, m, n) /\ x = SubSeq(s, m, n)
    BY <1>9, PieceOut
  <2>2. m \in 1 .. Len(t) /\ n \in 1 .. Len(t) /\ m <= n
    BY <1>1, <2>1 DEF IsPiece
  <2> QED
    <3>1. IsPiece(t, sep, m, n) /\ x = SubSeq(t, m, n)
      BY <1>2, <1>3, <2>1, <2>2
    <3> QED
      BY <2>2, <3>1, PieceIn
<1>10. body \in Pieces(t, sep)
  <2>1. Len(s) + 2 \in 1 .. Len(t) /\ Len(t) \in 1 .. Len(t)
    BY <1>1
  <2> QED
    BY <1>5, <1>7, <2>1, PieceIn
<1> QED
  BY <1>8, <1>9, <1>10 DEF t
-----------------------------------------------------------------------------
(* The lists of items. *)

\* Words that are separated by commas, and are read as the items.
IsList(list, items) ==
  /\ list \in Seq(Words)
  /\ \A k \in 1 .. Len(list) : list[k] # CRLF
  /\ list = <<>> => items = {}
  /\ Pieces(list, Comma) = {<<item>> : item \in items}

LEMMA WordsDiffer == CRLF # Comma /\ CRLF # NameValueSeparator
  BY Zenon DEF CRLF, Comma, NameValueSeparator

LEMMA StringsAreWords ==
  /\ Strings \subseteq Words \ {CRLF, Comma}
  /\ Order \in Seq(Strings)
<1>1. Order \in Seq(Words \ {CRLF, Comma}) /\ DOMAIN Order = 1 .. Len(Order)
  BY WordsAssumption
<1>2. \A k \in 1 .. Len(Order) : Order[k] \in Words \ {CRLF, Comma}
  BY <1>1
<1>3. Strings \subseteq Words \ {CRLF, Comma}
  BY <1>1, <1>2 DEF Strings, ToSet
<1>4. \A k \in 1 .. Len(Order) : Order[k] \in Strings
  BY <1>1 DEF Strings, ToSet
<1>5. Order \in Seq(Strings)
  BY <1>1, <1>4
<1> QED
  BY <1>3, <1>5

LEMMA ToSetAppend ==
  ASSUME NEW S, NEW s \in Seq(S), NEW c \in S
  PROVE  ToSet(Append(s, c)) = ToSet(s) \cup {c} /\ Append(s, c) \in Seq(S)
<1> DEFINE t == Append(s, c)
<1>1. /\ t \in Seq(S) /\ Len(s) \in Nat /\ Len(t) = Len(s) + 1
      /\ \A k \in 1 .. Len(s) : t[k] = s[k]
      /\ t[Len(s) + 1] = c
      /\ DOMAIN s = 1 .. Len(s) /\ DOMAIN t = 1 .. Len(t)
  OBVIOUS
<1> HIDE DEF t
<1>2. ASSUME NEW x \in ToSet(t) PROVE x \in ToSet(s) \cup {c}
  <2>1. PICK k \in 1 .. Len(t) : x = t[k]
    BY <1>1 DEF ToSet
  <2>2. k \in 1 .. Len(s) \/ k = Len(s) + 1
    BY <1>1
  <2> QED
    BY <1>1, <2>1, <2>2 DEF ToSet
<1>3. ASSUME NEW x \in ToSet(s) \cup {c} PROVE x \in ToSet(t)
  <2>1. CASE x \in ToSet(s)
    <3>1. PICK k \in 1 .. Len(s) : x = s[k]
      BY <1>1, <2>1 DEF ToSet
    <3>2. k \in 1 .. Len(t)
      BY <1>1
    <3> QED
      BY <1>1, <3>1, <3>2 DEF ToSet
  <2>2. CASE x = c
    <3>1. Len(s) + 1 \in 1 .. Len(t)
      BY <1>1
    <3> QED
      BY <1>1, <2>2, <3>1 DEF ToSet
  <2> QED
    BY <1>3, <2>1, <2>2
<1> QED
  BY <1>1, <1>2, <1>3 DEF t

\* One word more, behind the comma.
LEMMA ListGrows ==
  ASSUME NEW list, NEW items, IsList(list, items), NEW item \in Strings
  PROVE  IsList(IF list = <<>> THEN <<item>> ELSE list \o <<Comma, item>>, items \cup {item})
<1> DEFINE body == <<item>>
<1>1. item \in Words /\ item # CRLF /\ item # Comma /\ Comma \in Words /\ Comma # CRLF
  BY StringsAreWords, WordsAssumption, WordsDiffer
<1>2. list \in Seq(Words) /\ Len(list) \in Nat
  BY DEF IsList
<1>3. body \in Seq(Words) /\ Len(body) = 1 /\ body[1] = item
  BY <1>1
<1>4. Pieces(list, Comma) = {<<x>> : x \in items}
  BY DEF IsList
<1>5. {<<x>> : x \in items \cup {item}} = {<<x>> : x \in items} \cup {body}
  OBVIOUS
<1>6. CASE list = <<>>
  <2>1. items = {}
    BY <1>6 DEF IsList
  <2>2. Pieces(body, Comma) = {body}
    <3>1. \A k \in 1 .. Len(body) : body[k] # Comma
      BY <1>1, <1>3
    <3>2. Len(body) > 0
      BY <1>3
    <3> HIDE DEF body
    <3> QED
      BY <1>3, <3>1, <3>2, PiecesOne, Zenon
  <2>3. body # <<>>
    BY <1>3
  <2>4. \A k \in 1 .. Len(body) : body[k] # CRLF
    BY <1>1, <1>3
  <2> QED
    BY <1>3, <1>5, <1>6, <2>1, <2>2, <2>3, <2>4 DEF IsList
<1>7. CASE list # <<>>
  <2> DEFINE more == Append(list, Comma) \o body
  <2>1. list \o <<Comma, item>> = more
    BY <1>1, <1>2
  <2>2. /\ more \in Seq(Words) /\ Len(more) = Len(list) + 2
        /\ \A k \in 1 .. Len(list) : more[k] = list[k]
        /\ more[Len(list) + 1] = Comma /\ more[Len(list) + 2] = item
    BY <1>1, <1>2
  <2>3. Pieces(more, Comma) = Pieces(list, Comma) \cup {body}
    <3>1. \A k \in 1 .. Len(body) : body[k] # Comma
      BY <1>1, <1>3
    <3> HIDE DEF body
    <3> QED
      BY <1>1, <1>2, <1>3, <3>1, PiecesMore
  <2> HIDE DEF more
  <2>4. more # <<>>
    BY <1>2, <2>2
  <2>5. \A k \in 1 .. Len(more) : more[k] # CRLF
    <3> TAKE k \in 1 .. Len(more)
    <3>1. k \in 1 .. Len(list) \/ k = Len(list) + 1 \/ k = Len(list) + 2
      BY <1>2, <2>2
    <3> QED
      BY <1>1, <2>2, <3>1 DEF IsList
  <2>6. IsList(more, items \cup {item})
    BY <1>4, <1>5, <2>2, <2>3, <2>4, <2>5 DEF IsList
  <2> QED
    BY <1>7, <2>1, <2>6
<1> QED
  BY <1>6, <1>7

LEMMA NextItemOperation ==
  ASSUME NEW items PROVE Operation(NextItem(items), Seq(Words), Strings)
  BY StringsAreWords, WordsAssumption DEF NextItem, Operation

LEMMA ListRead ==
  ASSUME NEW items, items \subseteq Strings
  PROVE  IsList(getCommaSeparatedList(items), items)
<1> DEFINE op == NextItem(items)
           base == <<>>
           upTo(s) == Accumulated(op, base, s)
           P == {s \in Seq(Strings) : IsList(upTo(s), items \cap ToSet(s))}
<1>1. Operation(op, Seq(Words), Strings) /\ base \in Seq(Words)
  BY NextItemOperation, EmptySeq
<1>2. <<>> \in P
  <2>1. upTo(<<>>) = <<>>
    BY <1>1, AccumulatedEmpty
  <2>2. ToSet(<<>>) = {}
    BY DEF ToSet
  <2>3. Pieces(<<>>, Comma) = {}
    BY PiecesOfNothing
  <2>4. IsList(<<>>, {})
    BY <2>3 DEF IsList
  <2> QED
    BY <2>1, <2>2, <2>4
<1>3. ASSUME NEW s \in Seq(Strings), NEW c \in Strings, s \in P PROVE Append(s, c) \in P
  <2>1. upTo(Append(s, c)) = op[<<upTo(s), c>>]
    <3> HIDE DEF op, base
    <3>1. upTo(Append(s, c)) = Applied(op, upTo(s), c)
      BY <1>1, AccumulatedAppend
    <3> QED
      BY <3>1 DEF Applied
  <2>2. upTo(s) \in Seq(Words)
    <3> HIDE DEF op, base
    <3> QED
      BY <1>1, AccumulatedType
  <2>3. ToSet(Append(s, c)) = ToSet(s) \cup {c} /\ Append(s, c) \in Seq(Strings)
    BY ToSetAppend
  <2>4. IsList(upTo(s), items \cap ToSet(s))
    BY <1>3
  <2> DEFINE list == upTo(s)
             longer == upTo(Append(s, c))
  <2> HIDE DEF upTo
  <2>5. longer = IF c \notin items THEN list
                 ELSE IF list = <<>> THEN <<c>> ELSE list \o <<Comma, c>>
    BY <2>1, <2>2 DEF NextItem
  <2> HIDE DEF list, longer
  <2>6. CASE c \notin items
    <3>1. items \cap (ToSet(s) \cup {c}) = items \cap ToSet(s)
      BY <2>6
    <3>2. longer = list
      BY <2>5, <2>6
    <3> QED
      BY <2>3, <2>4, <3>1, <3>2 DEF list, longer
  <2>7. CASE c \in items
    <3>1. items \cap (ToSet(s) \cup {c}) = (items \cap ToSet(s)) \cup {c}
      BY <2>7
    <3>2. longer = IF list = <<>> THEN <<c>> ELSE list \o <<Comma, c>>
      BY <2>5, <2>7
    <3>3. IsList(longer, (items \cap ToSet(s)) \cup {c})
      BY <2>4, <3>2, ListGrows DEF list
    <3> QED
      BY <2>3, <3>1, <3>3 DEF longer
  <2> QED
    BY <2>6, <2>7
<1>4. Seq(Strings) \subseteq P
  <2> HIDE DEF P
  <2> QED
    BY <1>2, <1>3, SequenceInduction
<1>5. IsList(upTo(Order), items \cap ToSet(Order))
  BY <1>4, StringsAreWords
<1>6. items \cap ToSet(Order) = items
  BY DEF Strings
<1> QED
  BY <1>5, <1>6 DEF getCommaSeparatedList

\* A client that splits the list at its commas reads the items of the set.
LEMMA ItemsOfList ==
  ASSUME NEW items, items \subseteq Strings
  PROVE  ItemsRead(getCommaSeparatedList(items)) = items
<1> DEFINE list == getCommaSeparatedList(items)
           Items == {<<item>> : item \in items}
<1>1. Pieces(list, Comma) = Items
  BY ListRead DEF IsList
<1>2. {p \in Items : Len(p) = 1} = Items
  OBVIOUS
<1>3. {p[1] : p \in Items} = items
  <2>1. ASSUME NEW x \in items PROVE x \in {p[1] : p \in Items}
    <3>1. <<x>> \in Items /\ <<x>>[1] = x
      OBVIOUS
    <3> HIDE DEF Items
    <3> QED
      BY <3>1
  <2> QED
    BY <2>1
<1> HIDE DEF Items
<1> QED
  BY <1>1, <1>2, <1>3 DEF ItemsRead
-----------------------------------------------------------------------------
(* The head of a reply. *)

IsHeaders(h) ==
  /\ DOMAIN h \subseteq Strings
  /\ \A name \in DOMAIN h : h[name] \in Seq(Words \ {CRLF})

Line(h, name) == <<name, NameValueSeparator>> \o h[name]

\* Lines that are read as the headers of names, and hold no empty line.
IsHead(head, h, names) ==
  /\ head \in Seq(Words)
  /\ Len(head) > 0 => head[1] # CRLF /\ head[Len(head)] = CRLF
  /\ \A k \in 2 .. Len(head) : ~(head[k - 1] = CRLF /\ head[k] = CRLF)
  /\ Pieces(head, CRLF) = {Line(h, name) : name \in names}

LEMMA LineIs ==
  ASSUME NEW h, IsHeaders(h), NEW name \in DOMAIN h
  PROVE  /\ Line(h, name) \in Seq(Words) /\ Len(Line(h, name)) > 1
         /\ \A k \in 1 .. Len(Line(h, name)) : Line(h, name)[k] # CRLF
         /\ Line(h, name)[1] = name /\ Line(h, name)[2] = NameValueSeparator
         /\ SubSeq(Line(h, name), 3, Len(Line(h, name))) = h[name]
<1> DEFINE v == h[name]
           line == <<name, NameValueSeparator>> \o v
           value == SubSeq(line, 3, Len(line))
<1>1. /\ v \in Seq(Words \ {CRLF}) /\ v \in Seq(Words) /\ Len(v) \in Nat
      /\ \A k \in 1 .. Len(v) : v[k] \in Words /\ v[k] # CRLF
  <2>1. v \in Seq(Words \ {CRLF})
    BY DEF IsHeaders
  <2> HIDE DEF v
  <2> QED
    BY <2>1
<1>2. name \in Words /\ name # CRLF /\ NameValueSeparator \in Words /\ NameValueSeparator # CRLF
  BY StringsAreWords, WordsAssumption, WordsDiffer DEF IsHeaders
<1> HIDE DEF v
<1>3. /\ line \in Seq(Words) /\ Len(line) = Len(v) + 2
      /\ line[1] = name /\ line[2] = NameValueSeparator
      /\ \A k \in 1 .. Len(v) : line[k + 2] = v[k]
  BY <1>1, <1>2
<1> HIDE DEF line
<1>4. \A k \in 1 .. Len(line) : line[k] # CRLF
  <2> TAKE k \in 1 .. Len(line)
  <2>1. k = 1 \/ k = 2 \/ (k - 2 \in 1 .. Len(v) /\ (k - 2) + 2 = k)
    BY <1>1, <1>3
  <2>2. ASSUME k - 2 \in 1 .. Len(v), (k - 2) + 2 = k PROVE line[k] # CRLF
    <3>1. line[(k - 2) + 2] = v[k - 2]
      BY <1>3, <2>2
    <3> QED
      BY <1>1, <2>2, <3>1
  <2> QED
    BY <1>2, <1>3, <2>1, <2>2
<1>5. value = v
  <2>1. /\ value \in Seq(Words) /\ Len(value) = Len(v)
        /\ \A k \in 1 .. Len(v) : value[k] = line[3 + k - 1]
    BY <1>1, <1>3, SubSeqProperties
  <2> HIDE DEF value
  <2>2. \A k \in 1 .. Len(v) : value[k] = v[k]
    <3> TAKE k \in 1 .. Len(v)
    <3>1. 3 + k - 1 = k + 2
      BY <1>1
    <3> QED
      BY <1>3, <2>1, <3>1
  <2> QED
    BY <1>1, <2>1, <2>2, SeqEqual
<1>6. Len(line) > 1
  BY <1>1, <1>3
<1> QED
  BY <1>3, <1>4, <1>5, <1>6 DEF Line, line, value, v

\* A line that ends with the separator, behind others that do, is one piece more.
LEMMA PiecesLine ==
  ASSUME NEW S, NEW s \in Seq(S), NEW sep \in S, NEW body \in Seq(S), Len(body) > 0,
         \A k \in 1 .. Len(body) : body[k] # sep,
         Len(s) > 0 => s[Len(s)] = sep
  PROVE  Pieces(Append(s \o body, sep), sep) = Pieces(s, sep) \cup {body}
<1>1. Pieces(Append(s \o body, sep), sep) = Pieces(s \o body, sep)
  BY ConcatProperties, PiecesEnd
<1>2. CASE s = <<>>
  <2>1. s \o body = body
    BY <1>2, ConcatEmptySeq
  <2>2. Pieces(s, sep) = {}
    BY <1>2, PiecesOfNothing
  <2>3. Pieces(body, sep) = {body}
    BY PiecesOne, Zenon
  <2> QED
    BY <1>1, <2>1, <2>2, <2>3
<1>3. CASE s # <<>>
  <2>1. Len(s) \in Nat /\ Len(s) > 0
    BY <1>3
  <2> DEFINE f == SubSeq(s, 1, Len(s) - 1)
             t == Append(f, sep)
  <2>2. f \in Seq(S) /\ Len(f) = Len(s) - 1 /\ \A k \in 1 .. Len(s) - 1 : f[k] = s[k]
    <3> DEFINE n == Len(s) - 1
    <3>1. n \in Nat /\ n - 1 + 1 = n /\ \A k \in 1 .. n : s[k] \in S /\ 1 + k - 1 = k
      BY <2>1
    <3> HIDE DEF n
    <3>2. /\ SubSeq(s, 1, n) \in Seq(S) /\ Len(SubSeq(s, 1, n)) = (IF 1 <= n THEN n - 1 + 1 ELSE 0)
          /\ \A k \in 1 .. n - 1 + 1 : SubSeq(s, 1, n)[k] = s[1 + k - 1]
      BY <3>1, SubSeqProperties
    <3>3. SubSeq(s, 1, n) = f
      BY DEF n
    <3> HIDE DEF f
    <3>4. f \in Seq(S) /\ Len(f) = n /\ \A k \in 1 .. n : f[k] = s[k]
      BY <3>1, <3>2, <3>3
    <3> QED
      BY <3>4 DEF n
  <2> HIDE DEF f
  <2>3. /\ t \in Seq(S) /\ Len(t) = Len(s)
        /\ \A k \in 1 .. Len(s) - 1 : t[k] = s[k]
        /\ t[Len(s)] = sep
    BY <2>1, <2>2
  <2> HIDE DEF t
  <2>4. t = s
    <3>1. \A k \in 1 .. Len(s) : k \in 1 .. Len(s) - 1 \/ k = Len(s)
      BY <2>1
    <3>2. \A k \in 1 .. Len(t) : t[k] = s[k]
      BY <2>1, <2>3, <3>1
    <3> QED
      BY <2>3, <3>2, SeqEqual
  <2>5. Pieces(t \o body, sep) = Pieces(f, sep) \cup {body}
    BY <2>2, PiecesMore DEF t
  <2>6. Pieces(t, sep) = Pieces(f, sep)
    BY <2>2, PiecesEnd DEF t
  <2> QED
    BY <1>1, <2>4, <2>5, <2>6
<1> QED
  BY <1>2, <1>3

LEMMA HeadGrows ==
  ASSUME NEW h, IsHeaders(h), NEW head, NEW names, IsHead(head, h, names), NEW name \in DOMAIN h
  PROVE  IsHead(head \o <<name, NameValueSeparator>> \o h[name] \o <<CRLF>>, h, names \cup {name})
<1> DEFINE body == Line(h, name)
           more == Append(head \o body, CRLF)
           start == <<name, NameValueSeparator>>
<1>1. CRLF \in Words /\ NameValueSeparator \in Words /\ name \in Words
  BY StringsAreWords, WordsAssumption DEF IsHeaders
<1>2. head \in Seq(Words) /\ Len(head) \in Nat
  BY DEF IsHead
<1>3. /\ body \in Seq(Words) /\ Len(body) \in Nat /\ Len(body) > 1
      /\ \A k \in 1 .. Len(body) : body[k] # CRLF
  <2>1. /\ body \in Seq(Words) /\ Len(body) > 1
        /\ \A k \in 1 .. Len(body) : body[k] # CRLF
    BY LineIs
  <2> HIDE DEF body
  <2> QED
    BY <2>1
<1>4. head \o start \o h[name] \o <<CRLF>> = more
  <2> DEFINE v == h[name]
             front == head \o start
             whole == head \o body
  <2>1. v \in Seq(Words)
    <3>1. v \in Seq(Words \ {CRLF})
      BY DEF IsHeaders
    <3> HIDE DEF v
    <3> QED
      BY <3>1
  <2>2. start \in Seq(Words)
    BY <1>1
  <2>3. body = start \o v
    BY DEF Line
  <2> HIDE DEF start, v, body
  <2>4. front \o v = whole
    BY <1>2, <2>1, <2>2, <2>3, ConcatAssociative
  <2>5. whole \in Seq(Words)
    BY <1>2, <1>3, ConcatProperties
  <2> HIDE DEF whole, front
  <2>6. whole \o <<CRLF>> = Append(whole, CRLF)
    BY <1>1, <2>5, AppendIsConcat
  <2> QED
    BY <2>4, <2>6 DEF whole, front, start, v
<1> HIDE DEF body
<1>5. /\ more \in Seq(Words) /\ Len(more) = Len(head) + Len(body) + 1
      /\ \A k \in 1 .. Len(head) : more[k] = head[k]
      /\ \A k \in 1 .. Len(body) : more[Len(head) + k] = body[k]
      /\ more[Len(head) + Len(body) + 1] = CRLF
  BY <1>1, <1>2, <1>3
<1>6. Pieces(more, CRLF) = {Line(h, n) : n \in names \cup {name}}
  <2>1. Pieces(more, CRLF) = Pieces(head, CRLF) \cup {body}
    BY <1>1, <1>2, <1>3, PiecesLine DEF IsHead
  <2>2. Pieces(head, CRLF) = {Line(h, n) : n \in names}
    BY DEF IsHead
  <2> QED
    BY <2>1, <2>2, Zenon DEF body
<1> HIDE DEF more
<1>7. Len(more) > 0 /\ more[1] # CRLF /\ more[Len(more)] = CRLF
  <2>1. CASE Len(head) = 0
    <3>1. 1 \in 1 .. Len(body) /\ Len(head) + 1 = 1
      BY <1>3, <2>1
    <3>2. more[Len(head) + 1] = body[1]
      BY <1>5, <3>1
    <3> QED
      BY <1>3, <1>5, <2>1, <3>1, <3>2
  <2>2. CASE Len(head) > 0
    <3>1. 1 \in 1 .. Len(head)
      BY <1>2, <2>2
    <3> QED
      BY <1>2, <1>3, <1>5, <2>2, <3>1 DEF IsHead
  <2> QED
    BY <1>2, <2>1, <2>2
<1>8. ASSUME NEW k \in 2 .. Len(more), more[k - 1] = CRLF, more[k] = CRLF PROVE FALSE
  <2>0. ASSUME NEW j \in Len(head) + 1 .. Len(head) + Len(body) PROVE more[j] # CRLF
    <3>1. j - Len(head) \in 1 .. Len(body) /\ Len(head) + (j - Len(head)) = j
      BY <1>2, <1>3
    <3> QED
      BY <1>3, <1>5, <3>1, ZenonT(120)
  <2>1. CASE k <= Len(head)
    <3>1. k \in 1 .. Len(head) /\ k - 1 \in 1 .. Len(head) /\ k \in 2 .. Len(head)
      BY <1>2, <2>1
    <3> QED
      BY <1>5, <1>8, <3>1 DEF IsHead
  <2>2. CASE k > Len(head) /\ k <= Len(head) + Len(body)
    BY <1>2, <1>3, <1>8, <2>0, <2>2
  <2>3. CASE k = Len(head) + Len(body) + 1
    <3>1. k - 1 \in Len(head) + 1 .. Len(head) + Len(body)
      BY <1>2, <1>3, <2>3
    <3> QED
      BY <1>8, <2>0, <3>1
  <2>4. k <= Len(head) + Len(body) + 1 /\ k \in Nat
    BY <1>2, <1>3, <1>5
  <2>5. \/ k <= Len(head)
        \/ k > Len(head) /\ k <= Len(head) + Len(body)
        \/ k = Len(head) + Len(body) + 1
    BY <1>2, <1>3, <2>4
  <2> QED
    BY <2>1, <2>2, <2>3, <2>5
<1> QED
  BY <1>4, <1>5, <1>6, <1>7, <1>8 DEF IsHead, start

LEMMA NextLineOperation ==
  ASSUME NEW h, IsHeaders(h) PROVE Operation(NextLine(h), Seq(Words), Strings)
<1>1. ASSUME NEW x \in Seq(Words), NEW name \in DOMAIN h
      PROVE  x \o <<name, NameValueSeparator>> \o h[name] \o <<CRLF>> \in Seq(Words)
  <2> DEFINE v == h[name]
             start == <<name, NameValueSeparator>>
             end == <<CRLF>>
  <2>1. v \in Seq(Words)
    <3>1. v \in Seq(Words \ {CRLF})
      BY DEF IsHeaders
    <3> HIDE DEF v
    <3> QED
      BY <3>1
  <2>2. start \in Seq(Words) /\ end \in Seq(Words)
    BY StringsAreWords, WordsAssumption DEF IsHeaders
  <2> HIDE DEF v, start, end
  <2>3. x \o start \o v \o end \in Seq(Words)
    BY <2>1, <2>2, ConcatProperties
  <2> QED
    BY <2>3 DEF v, start, end
<1>2. ASSUME NEW p \in Seq(Words) \X Strings
      PROVE  (IF p[2] \in DOMAIN h
              THEN p[1] \o <<p[2], NameValueSeparator>> \o h[p[2]] \o <<CRLF>> ELSE p[1]) \in Seq(Words)
  <2>1. p[1] \in Seq(Words)
    OBVIOUS
  <2> QED
    BY <1>1, <2>1, Zenon
<1> QED
  BY <1>2, Zenon DEF NextLine, Operation

\* The lines of a reply are read as its headers.
LEMMA HeadRead ==
  ASSUME NEW h, IsHeaders(h) PROVE IsHead(Lines(h), h, DOMAIN h)
<1> DEFINE op == NextLine(h)
           base == <<>>
           upTo(s) == Accumulated(op, base, s)
           P == {s \in Seq(Strings) : IsHead(upTo(s), h, DOMAIN h \cap ToSet(s))}
<1>1. Operation(op, Seq(Words), Strings) /\ base \in Seq(Words)
  BY NextLineOperation, EmptySeq
<1>2. <<>> \in P
  <2>1. upTo(<<>>) = base
    BY <1>1, AccumulatedEmpty
  <2>2. ToSet(<<>>) = {}
    BY DEF ToSet
  <2>3. Pieces(base, CRLF) = {}
    BY PiecesOfNothing
  <2>4. Len(base) = 0
    OBVIOUS
  <2>5. IsHead(base, h, {})
    <3> HIDE DEF base
    <3> QED
      BY <1>1, <2>3, <2>4 DEF IsHead
  <2> QED
    <3>1. DOMAIN h \cap ToSet(<<>>) = {} /\ <<>> \in Seq(Strings)
      BY <2>2, EmptySeq
    <3> HIDE DEF upTo, base
    <3> QED
      BY <2>1, <2>5, <3>1
<1>3. ASSUME NEW s \in Seq(Strings), NEW c \in Strings, s \in P PROVE Append(s, c) \in P
  <2>1. upTo(Append(s, c)) = Applied(op, upTo(s), c)
    <3> HIDE DEF op, base
    <3> QED
      BY <1>1, AccumulatedAppend
  <2>2. upTo(s) \in Seq(Words)
    <3> HIDE DEF op, base
    <3> QED
      BY <1>1, AccumulatedType
  <2>3. ToSet(Append(s, c)) = ToSet(s) \cup {c} /\ Append(s, c) \in Seq(Strings)
    BY ToSetAppend
  <2>4. IsHead(upTo(s), h, DOMAIN h \cap ToSet(s))
    BY <1>3
  <2> DEFINE head == upTo(s)
             longer == upTo(Append(s, c))
  <2> HIDE DEF upTo
  <2>5. /\ c \in DOMAIN h => longer = head \o <<c, NameValueSeparator>> \o h[c] \o <<CRLF>>
        /\ c \notin DOMAIN h => longer = head
    BY <2>1, <2>2, Zenon DEF NextLine, Applied
  <2> HIDE DEF head, longer
  <2>6. CASE c \notin DOMAIN h
    <3>1. DOMAIN h \cap (ToSet(s) \cup {c}) = DOMAIN h \cap ToSet(s)
      BY <2>6
    <3> QED
      BY <2>3, <2>4, <2>5, <2>6, <3>1 DEF head, longer
  <2>7. CASE c \in DOMAIN h
    <3>1. DOMAIN h \cap (ToSet(s) \cup {c}) = (DOMAIN h \cap ToSet(s)) \cup {c}
      BY <2>7
    <3>2. IsHead(head \o <<c, NameValueSeparator>> \o h[c] \o <<CRLF>>, h,
                 (DOMAIN h \cap ToSet(s)) \cup {c})
      BY <2>4, <2>7, HeadGrows DEF head
    <3> QED
      BY <2>3, <2>5, <2>7, <3>1, <3>2, Zenon DEF longer
  <2> QED
    BY <2>6, <2>7
<1>4. Seq(Strings) \subseteq P
  <2> HIDE DEF P
  <2> QED
    BY <1>2, <1>3, SequenceInduction
<1>5. IsHead(upTo(Order), h, DOMAIN h \cap ToSet(Order))
  BY <1>4, StringsAreWords
<1>6. DOMAIN h \cap ToSet(Order) = DOMAIN h
  BY DEF Strings, IsHeaders
<1> QED
  BY <1>5, <1>6 DEF Lines
-----------------------------------------------------------------------------
(* The whole reply. *)

LEMMA StatusWords ==
  /\ DOMAIN StatusLine = {
       "OK", "CREATED", "ACCEPTED", "NO_CONTENT", "MULTI_STATUS", "MULTIPLE_CHOICES",
       "MOVED_PERMANENTLY", "MOVED_TEMPORARILY", "NOT_MODIFIED", "BAD_REQUEST", "UNAUTHORIZED",
       "FORBIDDEN", "NOT_FOUND", "REQUEST_TIMEOUT", "INTERNAL_SERVER_ERROR", "NOT_IMPLEMENTED",
       "BAD_GATEWAY", "SERVICE_UNAVAILABLE"}
  /\ StatusLine["OK"] = "HTTP/1.0 200 OK"
  /\ StatusLine["CREATED"] = "HTTP/1.0 201 Created"
  /\ StatusLine["ACCEPTED"] = "HTTP/1.0 202 Accepted"
  /\ StatusLine["NO_CONTENT"] = "HTTP/1.0 204 No Content"
  /\ StatusLine["MULTI_STATUS"] = "HTTP/1.0 207 Multi-Status"
  /\ StatusLine["MULTIPLE_CHOICES"] = "HTTP/1.0 300 Multiple Choices"
  /\ StatusLine["MOVED_PERMANENTLY"] = "HTTP/1.0 301 Moved Permanently"
  /\ StatusLine["MOVED_TEMPORARILY"] = "HTTP/1.0 302 Moved Temporarily"
  /\ StatusLine["NOT_MODIFIED"] = "HTTP/1.0 304 Not Modified"
  /\ StatusLine["BAD_REQUEST"] = "HTTP/1.0 400 Bad Request"
  /\ StatusLine["UNAUTHORIZED"] = "HTTP/1.0 401 Unauthorized"
  /\ StatusLine["FORBIDDEN"] = "HTTP/1.0 403 Forbidden"
  /\ StatusLine["NOT_FOUND"] = "HTTP/1.0 404 Not Found"
  /\ StatusLine["REQUEST_TIMEOUT"] = "HTTP/1.0 408 Request Timeout"
  /\ StatusLine["INTERNAL_SERVER_ERROR"] = "HTTP/1.0 500 Internal Server Error"
  /\ StatusLine["NOT_IMPLEMENTED"] = "HTTP/1.0 501 Not Implemented"
  /\ StatusLine["BAD_GATEWAY"] = "HTTP/1.0 502 Bad Gateway"
  /\ StatusLine["SERVICE_UNAVAILABLE"] = "HTTP/1.0 503 Service Unavailable"
  BY SMT DEF StatusLine

\* Each status has a line of its own, which is none of the separators.
LEMMA StatusesDiffer ==
  \A x, y \in DOMAIN StatusLine : StatusLine[x] = StatusLine[y] => x = y
<1>1. SUFFICES ASSUME NEW x \in DOMAIN StatusLine, NEW y \in DOMAIN StatusLine,
                      StatusLine[x] = StatusLine[y]
               PROVE  x = y
  OBVIOUS
<1>2. CASE x = "OK"
  BY StatusWords, <1>1, <1>2, ZenonT(60)
<1>3. CASE x = "CREATED"
  BY StatusWords, <1>1, <1>3, ZenonT(60)
<1>4. CASE x = "ACCEPTED"
  BY StatusWords, <1>1, <1>4, ZenonT(60)
<1>5. CASE x = "NO_CONTENT"
  BY StatusWords, <1>1, <1>5, ZenonT(60)
<1>6. CASE x = "MULTI_STATUS"
  BY StatusWords, <1>1, <1>6, ZenonT(60)
<1>7. CASE x = "MULTIPLE_CHOICES"
  BY StatusWords, <1>1, <1>7, ZenonT(60)
<1>8. CASE x = "MOVED_PERMANENTLY"
  BY StatusWords, <1>1, <1>8, ZenonT(60)
<1>9. CASE x = "MOVED_TEMPORARILY"
  BY StatusWords, <1>1, <1>9, ZenonT(60)
<1>10. CASE x = "NOT_MODIFIED"
  BY StatusWords, <1>1, <1>10, ZenonT(60)
<1>11. CASE x = "BAD_REQUEST"
  BY StatusWords, <1>1, <1>11, ZenonT(60)
<1>12. CASE x = "UNAUTHORIZED"
  BY StatusWords, <1>1, <1>12, ZenonT(60)
<1>13. CASE x = "FORBIDDEN"
  BY StatusWords, <1>1, <1>13, ZenonT(60)
<1>14. CASE x = "NOT_FOUND"
  BY StatusWords, <1>1, <1>14, ZenonT(60)
<1>15. CASE x = "REQUEST_TIMEOUT"
  BY StatusWords, <1>1, <1>15, ZenonT(60)
<1>16. CASE x = "INTERNAL_SERVER_ERROR"
  BY StatusWords, <1>1, <1>16, ZenonT(60)
<1>17. CASE x = "NOT_IMPLEMENTED"
  BY StatusWords, <1>1, <1>17, ZenonT(60)
<1>18. CASE x = "BAD_GATEWAY"
  BY StatusWords, <1>1, <1>18, ZenonT(60)
<1>19. CASE x = "SERVICE_UNAVAILABLE"
  BY StatusWords, <1>1, <1>19, ZenonT(60)
<1> QED
  BY StatusWords, <1>2, <1>3, <1>4, <1>5, <1>6, <1>7, <1>8, <1>9, <1>10,
     <1>11, <1>12, <1>13, <1>14, <1>15, <1>16, <1>17, <1>18, <1>19, Zenon

LEMMA StatusIsWord ==
  \A x \in DOMAIN StatusLine : StatusLine[x] \in Words /\ StatusLine[x] # CRLF
<1>1. \A x \in DOMAIN StatusLine : StatusLine[x] # CRLF
  BY StatusWords, Zenon DEF CRLF
<1> QED
  BY <1>1, WordsAssumption
\* The empty line of a reply is the one behind its headers.
LEMMA EmptyLineFound ==
  ASSUME NEW status \in DOMAIN StatusLine, NEW head \in Seq(Words), NEW content \in Seq(Words),
         Len(head) > 0 => head[1] # CRLF /\ head[Len(head)] = CRLF,
         \A k \in 2 .. Len(head) : ~(head[k - 1] = CRLF /\ head[k] = CRLF),
         NEW b \in Seq(Words), Len(b) = Len(head) + Len(content) + 3,
         b[1] = StatusLine[status], b[2] = CRLF,
         \A k \in 1 .. Len(head) : b[k + 2] = head[k],
         b[Len(head) + 3] = CRLF
  PROVE  HasEmptyLine(b) /\ EmptyLine(b) = Len(head) + 3
<1> DEFINE e == Len(head) + 3
           IsEmpty(k) == b[k - 1] = CRLF /\ b[k] = CRLF
<1>1. Len(head) \in Nat /\ Len(content) \in Nat /\ e \in 2 .. Len(b)
  OBVIOUS
<1>2. IsEmpty(e)
  <2>1. CASE Len(head) = 0
    BY <2>1
  <2>2. CASE Len(head) > 0
    <3>1. Len(head) \in 1 .. Len(head) /\ Len(head) + 2 = e - 1
      BY <1>1, <2>2
    <3>2. b[Len(head) + 2] = head[Len(head)]
      BY <3>1
    <3> QED
      BY <2>2, <3>1, <3>2
  <2> QED
    BY <1>1, <2>1, <2>2
<1>3. ASSUME NEW j \in 2 .. e - 1, IsEmpty(j) PROVE FALSE
  <2>1. StatusLine[status] # CRLF
    BY StatusIsWord
  <2>2. j # 2
    BY <1>3, <2>1
  <2>3. CASE j = 3
    <3>1. 1 \in 1 .. Len(head) /\ 1 + 2 = 3 /\ Len(head) > 0
      BY <1>1, <2>3
    <3>2. b[3] = head[1]
      BY <3>1
    <3> QED
      BY <1>3, <2>3, <3>1, <3>2
  <2>4. CASE j > 3
    <3>1. /\ j - 2 \in 2 .. Len(head) /\ j - 2 \in 1 .. Len(head) /\ (j - 2) - 1 \in 1 .. Len(head)
          /\ (j - 2) + 2 = j /\ (j - 2) - 1 + 2 = j - 1
      BY <1>1, <2>4, SMTT(40)
    <3>2. b[(j - 2) + 2] = head[j - 2] /\ b[(j - 2) - 1 + 2] = head[(j - 2) - 1]
      BY <3>1
    <3> QED
      BY <1>3, <3>1, <3>2
  <2> QED
    BY <1>1, <2>2, <2>3, <2>4
<1>4. HasEmptyLine(b)
  BY <1>1, <1>2 DEF HasEmptyLine
<1>5. ASSUME NEW k \in 2 .. Len(b), IsEmpty(k), \A j \in 2 .. k - 1 : ~IsEmpty(j) PROVE k = e
  <2>1. ~(k < e)
    BY <1>1, <1>3, <1>5
  <2>2. ~(e < k)
    <3>1. e < k => e \in 2 .. k - 1
      BY <1>1
    <3> QED
      BY <1>2, <1>5, <3>1
  <2> QED
    BY <1>1, <2>1, <2>2
<1>6. \A j \in 2 .. e - 1 : ~IsEmpty(j)
  BY <1>3
<1> DEFINE First(k) == IsEmpty(k) /\ \A j \in 2 .. k - 1 : ~IsEmpty(j)
<1>7. EmptyLine(b) = CHOOSE k \in 2 .. Len(b) : First(k)
  BY DEF EmptyLine
<1>8. First(e) /\ \A k \in 2 .. Len(b) : First(k) => k = e
  BY <1>2, <1>5, <1>6
<1>9. (CHOOSE k \in 2 .. Len(b) : First(k)) = e
  <2> HIDE DEF First, e
  <2> QED
    BY <1>1, <1>8
<1> QED
  BY <1>4, <1>7, <1>9

\* Whatever its headers and its content, a client reads in the buffer of a reply what was
\* written into it.
LEMMA ReplyRead ==
  ASSUME NEW status \in DOMAIN StatusLine, NEW h, IsHeaders(h), NEW content \in Seq(Words),
         NEW b, b = buildBuffer(status, h, content)
  PROVE  /\ HasEmptyLine(b)
         /\ StatusRead(b) = {status}
         /\ ContentRead(b) = content
         /\ HeadersRead(b) = {<<name, h[name]>> : name \in DOMAIN h}
<1> DEFINE head == Lines(h)
           word == StatusLine[status]
<1>1. /\ head \in Seq(Words) /\ Len(head) \in Nat
      /\ Len(head) > 0 => head[1] # CRLF /\ head[Len(head)] = CRLF
      /\ \A k \in 2 .. Len(head) : ~(head[k - 1] = CRLF /\ head[k] = CRLF)
      /\ Pieces(head, CRLF) = {Line(h, name) : name \in DOMAIN h}
  <2>1. IsHead(head, h, DOMAIN h)
    BY HeadRead
  <2> HIDE DEF head
  <2> QED
    BY <2>1 DEF IsHead
<1>2. word \in Words /\ CRLF \in Words /\ Len(content) \in Nat
  BY StatusIsWord, WordsAssumption
<1>3. b = <<word, CRLF>> \o head \o <<CRLF>> \o content
  BY DEF buildBuffer
<1> HIDE DEF head, word
<1>4. /\ b \in Seq(Words) /\ Len(b) = Len(head) + Len(content) + 3
      /\ b[1] = word /\ b[2] = CRLF
      /\ \A k \in 1 .. Len(head) : b[k + 2] = head[k]
      /\ b[Len(head) + 3] = CRLF
      /\ \A k \in 1 .. Len(content) : b[Len(head) + 3 + k] = content[k]
  BY <1>1, <1>2, <1>3
<1>5. HasEmptyLine(b) /\ EmptyLine(b) = Len(head) + 3
  BY <1>1, <1>4, EmptyLineFound DEF word
<1>6. StatusRead(b) = {status}
  BY <1>4, StatusesDiffer DEF StatusRead, word
<1>7. ContentRead(b) = content
  <2> DEFINE x == SubSeq(b, Len(head) + 4, Len(b))
  <2>1. ContentRead(b) = x
    BY <1>1, <1>5 DEF ContentRead
  <2>2. /\ x \in Seq(Words) /\ Len(x) = Len(content)
        /\ \A k \in 1 .. Len(content) : x[k] = b[Len(head) + 4 + k - 1]
    <3>1. Len(b) - (Len(head) + 4) + 1 = Len(content) /\ Len(head) + 4 \in Nat /\ Len(b) \in Nat
          /\ \A k \in Len(head) + 4 .. Len(b) : b[k] \in Words
      BY <1>1, <1>2, <1>4
    <3> QED
      BY <1>1, <1>2, <1>4, <3>1, SubSeqProperties
  <2> HIDE DEF x
  <2>3. \A k \in 1 .. Len(content) : x[k] = content[k]
    <3> TAKE k \in 1 .. Len(content)
    <3>1. Len(head) + 4 + k - 1 = Len(head) + 3 + k
      BY <1>1
    <3> QED
      BY <1>4, <2>2, <3>1
  <2> QED
    BY <2>1, <2>2, <2>3, SeqEqual
<1>8. SubSeq(b, 3, EmptyLine(b) - 1) = head
  <2> DEFINE x == SubSeq(b, 3, Len(head) + 2)
  <2>1. SubSeq(b, 3, EmptyLine(b) - 1) = x
    BY <1>1, <1>5
  <2>2. /\ x \in Seq(Words) /\ Len(x) = Len(head)
        /\ \A k \in 1 .. Len(head) : x[k] = b[3 + k - 1]
    <3>1. Len(head) + 2 - 3 + 1 = Len(head) /\ Len(head) + 2 \in Nat
          /\ \A k \in 3 .. Len(head) + 2 : b[k] \in Words
      BY <1>1, <1>2, <1>4
    <3> QED
      BY <1>1, <3>1, SubSeqProperties
  <2> HIDE DEF x
  <2>3. \A k \in 1 .. Len(head) : x[k] = head[k]
    <3> TAKE k \in 1 .. Len(head)
    <3>1. 3 + k - 1 = k + 2
      BY <1>1
    <3> QED
      BY <1>4, <2>2, <3>1
  <2> QED
    BY <1>1, <2>1, <2>2, <2>3, SeqEqual
<1>9. HeadersRead(b) = {<<name, h[name]>> : name \in DOMAIN h}
  <2> DEFINE Found == {Line(h, name) : name \in DOMAIN h}
             Pair(line) == <<line[1], SubSeq(line, 3, Len(line))>>
  <2>1. HeadersRead(b) = {Pair(line) : line \in {l \in Found : l[2] = NameValueSeparator}}
    BY <1>1, <1>8, Zenon DEF HeadersRead
  <2>2. \A name \in DOMAIN h :
          Line(h, name)[2] = NameValueSeparator /\ Pair(Line(h, name)) = <<name, h[name]>>
    BY LineIs
  <2> HIDE DEF Pair
  <2>3. {l \in Found : l[2] = NameValueSeparator} = Found
    BY <2>2
  <2>4. {Pair(line) : line \in Found} = {<<name, h[name]>> : name \in DOMAIN h}
    <3> DEFINE Pairs == {Pair(line) : line \in Found}
               Headers == {<<name, h[name]>> : name \in DOMAIN h}
    <3>1. ASSUME NEW x \in Pairs PROVE x \in Headers
      <4>1. PICK name \in DOMAIN h : x = Pair(Line(h, name))
        BY <3>1
      <4> QED
        BY <2>2, <4>1
    <3>2. ASSUME NEW x \in Headers PROVE x \in Pairs
      <4>1. PICK name \in DOMAIN h : x = <<name, h[name]>>
        BY <3>2
      <4>2. Line(h, name) \in Found /\ x = Pair(Line(h, name))
        BY <2>2, <4>1
      <4> HIDE DEF Found
      <4> QED
        BY <4>2
    <3> QED
      BY <3>1, <3>2
  <2> QED
    BY <2>1, <2>3, <2>4
<1> QED
  BY <1>5, <1>6, <1>7, <1>9
-----------------------------------------------------------------------------
(* The headers of CORS. *)

\* g has a header that f has not, and besides those of f.
IsWith(g, f, name, value) ==
  /\ DOMAIN g = DOMAIN f \cup {name}
  /\ g[name] = value
  /\ \A x \in DOMAIN f : g[x] = f[x]

\* A header that is added leaves the others.
LEMMA HeaderAdded ==
  ASSUME NEW f, NEW name, NEW value, name \notin DOMAIN f
  PROVE  IsWith(addHeader(f, name, value), f, name, value)
  BY DEF addHeader, IsWith

LEMMA CORSNamesDiffer ==
  /\ AllowOrigin \notin {ExposeHeaders, AllowHeaders, AllowMethods, AllowCredentials, MaxAge}
  /\ ExposeHeaders \notin {AllowHeaders, AllowMethods, AllowCredentials, MaxAge}
  /\ AllowHeaders \notin {AllowMethods, AllowCredentials, MaxAge}
  /\ AllowMethods \notin {AllowCredentials, MaxAge}
  /\ AllowCredentials # MaxAge
  BY DEF AllowOrigin, ExposeHeaders, AllowHeaders, AllowMethods, AllowCredentials, MaxAge

\* g has the headers of CORS, and besides those of h.
IsWithCORS(g, h, cors, origin) ==
  /\ DOMAIN g = DOMAIN h
                  \cup {ExposeHeaders, AllowHeaders, AllowMethods, AllowCredentials, MaxAge}
                  \cup (IF isAllowedOrigin(cors, origin) THEN {AllowOrigin} ELSE {})
  /\ \A name \in DOMAIN h : g[name] = h[name]
  /\ isAllowedOrigin(cors, origin) => g[AllowOrigin] = <<origin>>
  /\ g[ExposeHeaders] = getCommaSeparatedList(cors.exposedHeaders)
  /\ g[AllowHeaders] = getCommaSeparatedList(cors.allowedHeaders)
  /\ g[AllowMethods] = getCommaSeparatedList(cors.allowedMethods)
  /\ g[AllowCredentials] = <<IF cors.allowedCredentials THEN "true" ELSE "false">>
  /\ g[MaxAge] = <<cors.maxAge>>

LEMMA CORSAdded ==
  ASSUME NEW cors, NEW origin, NEW h, cors.enabled, origin # NoOrigin, CORSNames \cap DOMAIN h = {}
  PROVE  IsWithCORS(addCORSHeaders(cors, origin, h), h, cors, origin)
<1> DEFINE allowed == isAllowedOrigin(cors, origin)
           exposed == getCommaSeparatedList(cors.exposedHeaders)
           headers == getCommaSeparatedList(cors.allowedHeaders)
           methods == getCommaSeparatedList(cors.allowedMethods)
           credentials == <<IF cors.allowedCredentials THEN "true" ELSE "false">>
           age == <<cors.maxAge>>
           h1 == IF allowed THEN addHeader(h, AllowOrigin, <<origin>>) ELSE h
           h2 == addHeader(h1, ExposeHeaders, exposed)
           h3 == addHeader(h2, AllowHeaders, headers)
           h4 == addHeader(h3, AllowMethods, methods)
           h5 == addHeader(h4, AllowCredentials, credentials)
           h6 == addHeader(h5, MaxAge, age)
           g == addCORSHeaders(cors, origin, h)
<1>1. g = h6
  BY Zenon DEF addCORSHeaders
<1>2. {AllowOrigin, ExposeHeaders, AllowHeaders, AllowMethods, AllowCredentials, MaxAge}
        \cap DOMAIN h = {}
  BY DEF CORSNames
<1>3. /\ DOMAIN h1 = DOMAIN h \cup (IF allowed THEN {AllowOrigin} ELSE {})
      /\ allowed => h1[AllowOrigin] = <<origin>>
      /\ \A x \in DOMAIN h : h1[x] = h[x]
  <2>1. CASE allowed
    <3>1. h1 = addHeader(h, AllowOrigin, <<origin>>) /\ AllowOrigin \notin DOMAIN h
      BY <1>2, <2>1
    <3>2. IsWith(addHeader(h, AllowOrigin, <<origin>>), h, AllowOrigin, <<origin>>)
      BY <3>1, HeaderAdded
    <3> HIDE DEF h1, allowed
    <3> QED
      BY <2>1, <3>1, <3>2 DEF IsWith
  <2>2. CASE ~allowed
    <3>1. h1 = h
      BY <2>2
    <3> HIDE DEF h1, allowed
    <3> QED
      BY <2>2, <3>1
  <2> QED
    BY <2>1, <2>2
<1> HIDE DEF h1, allowed, exposed, headers, methods, credentials, age
<1>4. ExposeHeaders \notin DOMAIN h1
  BY <1>2, <1>3, CORSNamesDiffer
<1>5. IsWith(h2, h1, ExposeHeaders, exposed)
  BY <1>4, HeaderAdded
<1> HIDE DEF h2
<1>6. AllowHeaders \notin DOMAIN h2
  BY <1>2, <1>3, <1>5, CORSNamesDiffer DEF IsWith
<1>7. IsWith(h3, h2, AllowHeaders, headers)
  BY <1>6, HeaderAdded
<1> HIDE DEF h3
<1>8. AllowMethods \notin DOMAIN h3
  BY <1>2, <1>3, <1>5, <1>7, CORSNamesDiffer DEF IsWith
<1>9. IsWith(h4, h3, AllowMethods, methods)
  BY <1>8, HeaderAdded
<1> HIDE DEF h4
<1>10. AllowCredentials \notin DOMAIN h4
  BY <1>2, <1>3, <1>5, <1>7, <1>9, CORSNamesDiffer DEF IsWith
<1>11. IsWith(h5, h4, AllowCredentials, credentials)
  BY <1>10, HeaderAdded
<1> HIDE DEF h5
<1>12. MaxAge \notin DOMAIN h5
  BY <1>2, <1>3, <1>5, <1>7, <1>9, <1>11, CORSNamesDiffer DEF IsWith
<1>13. IsWith(h6, h5, MaxAge, age)
  BY <1>12, HeaderAdded
<1> HIDE DEF h6
<1>14. /\ h6[ExposeHeaders] = exposed /\ h6[AllowHeaders] = headers /\ h6[AllowMethods] = methods
       /\ h6[AllowCredentials] = credentials /\ h6[MaxAge] = age
  BY <1>5, <1>7, <1>9, <1>11, <1>13 DEF IsWith
<1>15. \A x \in DOMAIN h1 : h6[x] = h1[x]
  BY <1>5, <1>7, <1>9, <1>11, <1>13 DEF IsWith
<1>16. DOMAIN h6 = DOMAIN h1
                     \cup {ExposeHeaders, AllowHeaders, AllowMethods, AllowCredentials, MaxAge}
  BY <1>5, <1>7, <1>9, <1>11, <1>13 DEF IsWith
<1>17. (\A name \in DOMAIN h : h6[name] = h[name]) /\ (allowed => h6[AllowOrigin] = <<origin>>)
  BY <1>3, <1>15
<1>18. DOMAIN g = DOMAIN h
                    \cup {ExposeHeaders, AllowHeaders, AllowMethods, AllowCredentials, MaxAge}
                    \cup (IF allowed THEN {AllowOrigin} ELSE {})
  BY <1>1, <1>3, <1>16
<1> HIDE DEF g
<1> QED
  BY <1>1, <1>14, <1>17, <1>18 DEF IsWithCORS, g, allowed, exposed, headers, methods, credentials, age

LEMMA CORSHeadersTyped ==
  ASSUME NEW cors, NEW origin, NEW h, IsHeaders(h),
         CORSNames \cap DOMAIN h = {}, CORSNames \subseteq Strings,
         origin = NoOrigin \/ origin \in Words \ {CRLF}, cors.maxAge \in Words \ {CRLF},
         cors.exposedHeaders \cup cors.allowedHeaders \cup cors.allowedMethods \subseteq Strings
  PROVE  IsHeaders(addCORSHeaders(cors, origin, h))
<1> DEFINE g == addCORSHeaders(cors, origin, h)
<1>1. CASE ~cors.enabled \/ origin = NoOrigin
  <2>1. g = h
    BY <1>1 DEF addCORSHeaders
  <2> HIDE DEF g
  <2>2. IsHeaders(g)
    BY <2>1
  <2> QED
    BY <2>2 DEF g
<1>2. CASE cors.enabled /\ origin # NoOrigin
  <2>1. IsWithCORS(g, h, cors, origin)
    BY <1>2, CORSAdded
  <2> HIDE DEF g
  <2>2. \A items : items \subseteq Strings =>
          getCommaSeparatedList(items) \in Seq(Words \ {CRLF})
    <3> TAKE items
    <3> HAVE items \subseteq Strings
    <3> DEFINE list == getCommaSeparatedList(items)
    <3>1. IsList(list, items)
      BY ListRead
    <3> HIDE DEF list
    <3>2. list \in Seq(Words \ {CRLF})
      <4>1. list \in Seq(Words) /\ \A k \in 1 .. Len(list) : list[k] \in Words \ {CRLF}
        BY <3>1 DEF IsList
      <4> QED
        BY <4>1
    <3> QED
      BY <3>2 DEF list
  <2>3. "true" \in Words \ {CRLF} /\ "false" \in Words \ {CRLF}
    BY WordsAssumption DEF CRLF
  <2>4. \A x \in Words \ {CRLF} : <<x>> \in Seq(Words \ {CRLF})
    OBVIOUS
  <2>5. /\ g[AllowCredentials] \in Seq(Words \ {CRLF}) /\ g[MaxAge] \in Seq(Words \ {CRLF})
        /\ isAllowedOrigin(cors, origin) => g[AllowOrigin] \in Seq(Words \ {CRLF})
    BY <1>2, <2>1, <2>3, <2>4 DEF IsWithCORS
  <2>6. /\ g[ExposeHeaders] \in Seq(Words \ {CRLF}) /\ g[AllowHeaders] \in Seq(Words \ {CRLF})
        /\ g[AllowMethods] \in Seq(Words \ {CRLF})
    BY <2>1, <2>2 DEF IsWithCORS
  <2>7. \A name \in DOMAIN h : g[name] \in Seq(Words \ {CRLF})
    BY <2>1 DEF IsHeaders, IsWithCORS
  <2>8. DOMAIN g \subseteq Strings
    BY <2>1 DEF IsHeaders, IsWithCORS, CORSNames
  <2> DEFINE Texts == Seq(Words \ {CRLF})
  <2> HIDE DEF Texts
  <2>9. \A name \in DOMAIN g : g[name] \in Texts
    BY <2>1, <2>5, <2>6, <2>7 DEF IsWithCORS, Texts
  <2>10. IsHeaders(g)
    BY <2>8, <2>9 DEF IsHeaders, Texts
  <2> QED
    BY <2>10 DEF g
<1> QED
  BY <1>1, <1>2
===============================================================================
