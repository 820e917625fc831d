----------------------------- MODULE WireProofs -----------------------------
(***************************************************************************)
(* Proofs about Wire, for any names, keys, values, width of the length     *)
(* fields and cut of the stream into pieces.                               *)
(***************************************************************************)
EXTENDS Wire, SequenceTheorems, TLAPS

\* x is written in the stream behind its first a cells.
WrittenAt(a, x) == a + Len(x) <= Len(stream) /\ \A i \in 1..Len(x) : stream[a + i] = x[i]

\* What frame and response build.
IsFrame(f, kind, id, payload) == f = <<kind, id, Len(payload) % LenMod>> \o payload

-----------------------------------------------------------------------------
LEMMA SubSeqCells ==
    ASSUME NEW src \in Seq(Nat), NEW m \in Nat \ {0}, NEW n \in Nat, n <= Len(src)
    PROVE  /\ SubSeq(src, m, n) \in Seq(Nat)
           /\ Len(SubSeq(src, m, n)) = IF m <= n THEN n - m + 1 ELSE 0
           /\ \A i \in 1..(n - m + 1) : SubSeq(src, m, n)[i] = src[m + i - 1]
<1>1. \A i \in m..n : src[i] \in Nat
  <2>1. Len(src) \in Nat /\ \A i \in 1..Len(src) : src[i] \in Nat
    BY LenProperties, ElementOfSeq
  <2> QED
    BY <2>1
<1>2. m \in Int /\ n \in Int
  OBVIOUS
<1> QED
  BY <1>1, <1>2, SubSeqProperties

LEMMA ConcatCells ==
    ASSUME NEW s \in Seq(Nat), NEW t \in Seq(Nat)
    PROVE  /\ s \o t \in Seq(Nat) /\ Len(s) \in Nat /\ Len(t) \in Nat
           /\ Len(s \o t) = Len(s) + Len(t)
           /\ \A i \in 1..Len(s) : (s \o t)[i] = s[i]
           /\ \A i \in 1..Len(t) : (s \o t)[Len(s) + i] = t[i]
<1>1. Len(s) \in Nat /\ Len(t) \in Nat
  BY LenProperties
<1>2. s \o t \in Seq(Nat) /\ Len(s \o t) = Len(s) + Len(t)
      /\ \A i \in 1..(Len(s) + Len(t)) : (s \o t)[i] = IF i <= Len(s) THEN s[i] ELSE t[i - Len(s)]
  BY ConcatProperties
<1>3. \A i \in 1..Len(s) : i \in 1..(Len(s) + Len(t)) /\ i <= Len(s)
  BY <1>1
<1>4. \A i \in 1..Len(t) : /\ Len(s) + i \in 1..(Len(s) + Len(t)) /\ ~(Len(s) + i <= Len(s))
                           /\ (Len(s) + i) - Len(s) = i
  BY <1>1
<1> QED
  BY <1>1, <1>2, <1>3, <1>4

LEMMA Sizes ==
    LenMod \in Nat \ {0} /\ MAX_FRAME_SIZE \in Nat /\ MAX_FRAME_SIZE <= LenMod
BY WireAssumption

LEMMA LenModType ==
    ASSUME NEW n \in Nat
    PROVE  n % LenMod \in Nat /\ (n < LenMod => n % LenMod = n)
BY Sizes

\* A field is its length and its bytes.
LEMMA FieldCells ==
    ASSUME NEW bytes \in Seq(Nat)
    PROVE  /\ field(bytes) \in Seq(Nat) /\ Len(bytes) \in Nat /\ Len(field(bytes)) = 1 + Len(bytes)
           /\ field(bytes)[1] = Len(bytes) % LenMod
           /\ \A i \in 1..Len(bytes) : field(bytes)[1 + i] = bytes[i]
<1> DEFINE h == <<Len(bytes) % LenMod>>
<1>1. Len(bytes) \in Nat /\ Len(bytes) % LenMod \in Nat
  BY LenProperties, LenModType
<1>2. h \in Seq(Nat) /\ Len(h) = 1 /\ h[1] = Len(bytes) % LenMod
  BY <1>1
<1> HIDE DEF h
<1>3. field(bytes) = h \o bytes
  BY DEF field, h
<1> DEFINE f == h \o bytes
<1>4. /\ f \in Seq(Nat) /\ Len(f) = Len(h) + Len(bytes)
      /\ \A i \in 1..Len(h) : f[i] = h[i]
      /\ \A i \in 1..Len(bytes) : f[Len(h) + i] = bytes[i]
  BY <1>2, ConcatCells
<1> HIDE DEF f
<1>5. /\ f \in Seq(Nat) /\ Len(f) = 1 + Len(bytes) /\ f[1] = h[1]
      /\ \A i \in 1..Len(bytes) : f[1 + i] = bytes[i]
  BY <1>1, <1>2, <1>4
<1> QED
  BY <1>1, <1>2, <1>3, <1>5 DEF f

\* A frame, or a response, is its head and its payload.
LEMMA FrameCells ==
    ASSUME NEW kind \in Nat, NEW id \in Nat, NEW payload \in Seq(Nat),
           NEW f, IsFrame(f, kind, id, payload)
    PROVE  /\ f \in Seq(Nat) /\ Len(payload) \in Nat /\ Len(f) = 3 + Len(payload)
           /\ f[1] = kind /\ f[2] = id /\ f[3] = Len(payload) % LenMod
           /\ \A i \in 1..Len(payload) : f[3 + i] = payload[i]
<1> DEFINE h == <<kind, id, Len(payload) % LenMod>>
<1>1. Len(payload) \in Nat /\ Len(payload) % LenMod \in Nat
  BY LenProperties, LenModType
<1>2. h \in Seq(Nat) /\ Len(h) = 3 /\ h[1] = kind /\ h[2] = id /\ h[3] = Len(payload) % LenMod
  BY <1>1
<1>3. f = h \o payload
  BY DEF IsFrame
<1> HIDE DEF h
<1>4. /\ f \in Seq(Nat) /\ Len(f) = Len(h) + Len(payload)
      /\ \A i \in 1..Len(h) : f[i] = h[i]
      /\ \A i \in 1..Len(payload) : f[Len(h) + i] = payload[i]
  BY <1>2, <1>3, ConcatCells
<1>5. /\ f \in Seq(Nat) /\ Len(f) = 3 + Len(payload)
      /\ f[1] = h[1] /\ f[2] = h[2] /\ f[3] = h[3]
      /\ \A i \in 1..Len(payload) : f[3 + i] = payload[i]
  BY <1>1, <1>2, <1>4
<1> QED
  BY <1>1, <1>2, <1>5

-----------------------------------------------------------------------------
\* What decode takes out of its buffer.
LEMMA DecodeType ==
    ASSUME NEW src \in Seq(Nat), decode(src) \notin {Incomplete, Bad}
    PROVE  /\ Len(src) \in Nat /\ src[1] \in FrameKinds /\ src[1] \in Nat /\ src[2] \in Nat
           /\ src[3] \in Nat /\ src[3] <= MAX_FRAME_SIZE /\ 3 + src[3] <= Len(src)
           /\ decode(src) = [kind |-> src[1], id |-> src[2], payload |-> SubSeq(src, 4, 3 + src[3])]
           /\ SubSeq(src, 4, 3 + src[3]) \in Seq(Nat) /\ Len(SubSeq(src, 4, 3 + src[3])) = src[3]
           /\ \A i \in 1..src[3] : SubSeq(src, 4, 3 + src[3])[i] = src[3 + i]
<1>1. Len(src) \in Nat
  BY LenProperties
<1>2. ~(Len(src) < 3)
  BY DEF decode, FRAME_HEAD_LEN
<1>3. src[1] \in Nat /\ src[2] \in Nat /\ src[3] \in Nat
  BY <1>1, <1>2, ElementOfSeq
<1>4. src[1] \in FrameKinds /\ ~(src[3] > MAX_FRAME_SIZE) /\ ~(Len(src) < 3 + src[3])
  BY <1>2 DEF decode, FRAME_HEAD_LEN
<1>5. decode(src) = [kind |-> src[1], id |-> src[2], payload |-> SubSeq(src, 4, 3 + src[3])]
  BY <1>2, <1>4 DEF decode, FRAME_HEAD_LEN
<1>6. src[3] <= MAX_FRAME_SIZE /\ 3 + src[3] <= Len(src)
  BY <1>1, <1>3, <1>4, Sizes
<1> DEFINE n == 3 + src[3]
<1>7. n \in Nat /\ n <= Len(src) /\ n - 4 + 1 = src[3] /\ (4 <= n <=> src[3] # 0)
  <2>1. \A m \in Nat : 3 + m \in Nat /\ (3 + m) - 4 + 1 = m /\ (4 <= 3 + m <=> m # 0)
    OBVIOUS
  <2> QED
    BY <1>3, <1>6, <2>1
<1>8. /\ SubSeq(src, 4, n) \in Seq(Nat)
      /\ Len(SubSeq(src, 4, n)) = IF 4 <= n THEN n - 4 + 1 ELSE 0
      /\ \A i \in 1..(n - 4 + 1) : SubSeq(src, 4, n)[i] = src[4 + i - 1]
  <2> HIDE DEF n
  <2> QED
    BY <1>7, SubSeqCells
<1> DEFINE p == SubSeq(src, 4, n)
<1> HIDE DEF p
<1>9. p \in Seq(Nat) /\ Len(p) = (IF 4 <= n THEN n - 4 + 1 ELSE 0)
      /\ \A i \in 1..(n - 4 + 1) : p[i] = src[4 + i - 1]
  BY <1>8 DEF p
<1>10. Len(p) = src[3] /\ \A i \in 1..src[3] : p[i] = src[3 + i]
  <2>1. \A i \in 1..src[3] : 4 + i - 1 = 3 + i
    BY <1>3
  <2> HIDE DEF n
  <2> QED
    BY <1>3, <1>7, <1>9, <2>1
<1> QED
  BY <1>1, <1>3, <1>4, <1>5, <1>6, <1>9, <1>10 DEF p

\* decode gives back the frame its buffer begins with, as soon as it has all of it.
LEMMA DecodeFrame ==
    ASSUME NEW src \in Seq(Nat), NEW kind \in Nat, NEW id \in Nat, NEW payload \in Seq(Nat),
           Fits(payload), decode(src) \notin {Incomplete, Bad},
           NEW f, IsFrame(f, kind, id, payload),
           \A i \in 1..Len(f) : i <= Len(src) => src[i] = f[i]
    PROVE  decode(src) = [kind |-> kind, id |-> id, payload |-> payload]
<1>1. /\ Len(payload) \in Nat /\ Len(f) = 3 + Len(payload)
      /\ f[1] = kind /\ f[2] = id /\ f[3] = Len(payload) % LenMod
      /\ \A i \in 1..Len(payload) : f[3 + i] = payload[i]
  BY FrameCells
<1> DEFINE p == SubSeq(src, 4, 3 + src[3])
<1>2. /\ Len(src) \in Nat /\ src[3] \in Nat /\ 3 + src[3] <= Len(src)
      /\ decode(src) = [kind |-> src[1], id |-> src[2], payload |-> p]
      /\ p \in Seq(Nat) /\ Len(p) = src[3] /\ \A i \in 1..src[3] : p[i] = src[3 + i]
  BY DecodeType
<1> HIDE DEF p
<1>3. 1 \in 1..Len(f) /\ 2 \in 1..Len(f) /\ 3 \in 1..Len(f) /\ 3 <= Len(src)
  <2>1. \A l, m, n \in Nat : /\ 1 \in 1..(3 + l) /\ 2 \in 1..(3 + l) /\ 3 \in 1..(3 + l)
                            /\ 3 + m <= n => 3 <= n
    OBVIOUS
  <2> QED
    BY <1>1, <1>2, <2>1
<1>4. src[1] = kind /\ src[2] = id /\ src[3] = Len(payload)
  <2>1. Len(payload) % LenMod = Len(payload)
    BY <1>1, LenModType DEF Fits
  <2>2. src[1] = f[1] /\ src[2] = f[2] /\ src[3] = f[3]
    <3>1. 1 <= Len(src) /\ 2 <= Len(src)
      BY <1>2, <1>3
    <3> QED
      BY <1>3, <3>1
  <2> QED
    BY <1>1, <2>1, <2>2
<1>5. p = payload
  <2>1. \A i \in 1..Len(p) : p[i] = payload[i]
    <3> TAKE i \in 1..Len(p)
    <3>1. i \in 1..Len(payload) /\ 3 + i \in 1..Len(f) /\ 3 + i <= Len(src)
      BY <1>1, <1>2, <1>4
    <3>2. p[i] = src[3 + i] /\ src[3 + i] = f[3 + i] /\ f[3 + i] = payload[i]
      BY <1>1, <1>2, <3>1
    <3> QED
      BY <3>2
  <2> QED
    BY <1>2, <1>4, <2>1, SeqEqual
<1> QED
  BY <1>2, <1>4, <1>5

-----------------------------------------------------------------------------
\* What read_field takes out of its buffer.
LEMMA FieldType ==
    ASSUME NEW buf \in Seq(Nat), ~Truncated(buf)
    PROVE  LET r == read_field(buf)
           IN  /\ Len(buf) \in Nat /\ buf[1] \in Nat /\ 1 + buf[1] <= Len(buf)
               /\ r.bytes \in Seq(Nat) /\ Len(r.bytes) = buf[1]
               /\ \A i \in 1..buf[1] : r.bytes[i] = buf[1 + i]
               /\ r.rest \in Seq(Nat) /\ Len(r.rest) = Len(buf) - (1 + buf[1])
               /\ \A i \in 1..Len(r.rest) : r.rest[i] = buf[1 + buf[1] + i]
<1>1. Len(buf) \in Nat
  BY LenProperties
<1>2. ~(Len(buf) < 1) /\ ~(Len(buf) < 1 + buf[1])
  BY DEF Truncated
<1>3. buf[1] \in Nat
  BY <1>1, <1>2, ElementOfSeq
<1> DEFINE m == 1 + buf[1]
           n == 2 + buf[1]
           b == SubSeq(buf, 2, m)
           t == SubSeq(buf, n, Len(buf))
<1>4. /\ m \in Nat /\ m <= Len(buf) /\ m - 2 + 1 = buf[1] /\ (2 <= m <=> buf[1] # 0)
      /\ n \in Nat \ {0} /\ (n <= Len(buf) <=> Len(buf) - m # 0) /\ Len(buf) - n + 1 = Len(buf) - m
      /\ Len(buf) - m \in Nat
  <2>1. \A x, l \in Nat : l >= 1 + x =>
            /\ 1 + x \in Nat /\ (1 + x) - 2 + 1 = x /\ (2 <= 1 + x <=> x # 0)
            /\ 2 + x \in Nat \ {0} /\ (2 + x <= l <=> l - (1 + x) # 0)
            /\ l - (2 + x) + 1 = l - (1 + x) /\ l - (1 + x) \in Nat /\ 1 + x <= l
    OBVIOUS
  <2>2. Len(buf) >= 1 + buf[1]
    BY <1>1, <1>2, <1>3
  <2> QED
    BY <1>1, <1>3, <2>1, <2>2
<1>5. read_field(buf).bytes = b /\ read_field(buf).rest = t
  BY DEF read_field
<1> HIDE DEF m, n
<1>6. /\ b \in Seq(Nat) /\ Len(b) = (IF 2 <= m THEN m - 2 + 1 ELSE 0)
      /\ \A i \in 1..(m - 2 + 1) : b[i] = buf[2 + i - 1]
  BY <1>4, SubSeqCells
<1>7. /\ t \in Seq(Nat) /\ Len(t) = (IF n <= Len(buf) THEN Len(buf) - n + 1 ELSE 0)
      /\ \A i \in 1..(Len(buf) - n + 1) : t[i] = buf[n + i - 1]
  BY <1>1, <1>4, SubSeqCells
<1> HIDE DEF b, t
<1>8. Len(b) = buf[1] /\ \A i \in 1..buf[1] : b[i] = buf[1 + i]
  <2>1. \A i \in 1..buf[1] : 2 + i - 1 = 1 + i
    BY <1>3
  <2> QED
    BY <1>3, <1>4, <1>6, <2>1
<1>9. Len(t) = Len(buf) - m /\ \A i \in 1..Len(t) : t[i] = buf[m + i]
  <2>1. Len(t) = Len(buf) - m
    BY <1>4, <1>7
  <2>2. \A i \in 1..Len(t) : n + i - 1 = m + i
    BY <1>1, <1>3, <1>4, <2>1 DEF m, n
  <2> QED
    BY <1>4, <1>7, <2>1, <2>2
<1> QED
  BY <1>1, <1>3, <1>4, <1>5, <1>6, <1>7, <1>8, <1>9 DEF m

\* A field with its length, and what follows it.
BeginsWith(buf, bytes, rest) ==
    /\ Len(buf) = 1 + Len(bytes) + Len(rest) /\ buf[1] = Len(bytes)
    /\ \A i \in 1..Len(bytes) : buf[1 + i] = bytes[i]
    /\ \A i \in 1..Len(rest) : buf[1 + Len(bytes) + i] = rest[i]

\* A field is read back, and what follows it is left.
LEMMA FieldRead ==
    ASSUME NEW bytes \in Seq(Nat), NEW rest \in Seq(Nat), NEW buf \in Seq(Nat),
           BeginsWith(buf, bytes, rest)
    PROVE  /\ ~Truncated(buf)
           /\ read_field(buf).bytes = bytes /\ read_field(buf).rest = rest
<1>0. /\ Len(buf) = 1 + Len(bytes) + Len(rest) /\ buf[1] = Len(bytes)
      /\ \A i \in 1..Len(bytes) : buf[1 + i] = bytes[i]
      /\ \A i \in 1..Len(rest) : buf[1 + Len(bytes) + i] = rest[i]
  BY DEF BeginsWith
<1>1. Len(bytes) \in Nat /\ Len(rest) \in Nat
  BY LenProperties
<1>2. ~Truncated(buf)
  BY <1>0, <1>1 DEF Truncated
<1> DEFINE b == read_field(buf).bytes
           t == read_field(buf).rest
<1>3. /\ b \in Seq(Nat) /\ Len(b) = buf[1] /\ \A i \in 1..buf[1] : b[i] = buf[1 + i]
      /\ t \in Seq(Nat) /\ Len(t) = Len(buf) - (1 + buf[1])
      /\ \A i \in 1..Len(t) : t[i] = buf[1 + buf[1] + i]
  BY <1>2, FieldType
<1> HIDE DEF b, t
<1>4. Len(t) = Len(rest)
  BY <1>0, <1>1, <1>3
<1>5. b = bytes
  <2>1. \A i \in 1..Len(b) : b[i] = bytes[i]
    BY <1>0, <1>3
  <2> QED
    BY <1>0, <1>3, <2>1, SeqEqual
<1>6. t = rest
  <2>1. \A i \in 1..Len(t) : t[i] = rest[i]
    BY <1>0, <1>3, <1>4
  <2> QED
    BY <1>3, <1>4, <2>1, SeqEqual
<1> QED
  BY <1>2, <1>5, <1>6 DEF b, t

LEMMA CredsCells ==
    ASSUME NEW user \in Seq(Nat), NEW pass \in Seq(Nat)
    PROVE  LET c == creds(user, pass)
           IN  /\ c \in Seq(Nat) /\ Len(c) = 1 + Len(user) + Len(pass)
               /\ Len(user) \in Nat /\ Len(pass) \in Nat /\ c[1] = Len(user) % LenMod
               /\ \A i \in 1..Len(user) : c[1 + i] = user[i]
               /\ \A i \in 1..Len(pass) : c[1 + Len(user) + i] = pass[i]
<1> DEFINE f == field(user)
<1>1. /\ f \in Seq(Nat) /\ Len(user) \in Nat /\ Len(f) = 1 + Len(user)
      /\ f[1] = Len(user) % LenMod /\ \A i \in 1..Len(user) : f[1 + i] = user[i]
  BY FieldCells
<1>2. creds(user, pass) = f \o pass
  BY DEF creds
<1> HIDE DEF f
<1> DEFINE c == creds(user, pass)
<1>3. /\ c \in Seq(Nat) /\ Len(pass) \in Nat /\ Len(c) = Len(f) + Len(pass)
      /\ \A i \in 1..Len(f) : c[i] = f[i] /\ \A j \in 1..Len(pass) : c[Len(f) + j] = pass[j]
  <2>1. /\ f \o pass \in Seq(Nat) /\ Len(pass) \in Nat /\ Len(f \o pass) = Len(f) + Len(pass)
        /\ \A i \in 1..Len(f) : (f \o pass)[i] = f[i]
        /\ \A j \in 1..Len(pass) : (f \o pass)[Len(f) + j] = pass[j]
    BY <1>1, ConcatCells
  <2> QED
    BY <1>2, <2>1
<1> HIDE DEF c
<1>4. 1 \in 1..Len(f) /\ \A i \in 1..Len(user) : 1 + i \in 1..Len(f)
  BY <1>1
<1>5. /\ c \in Seq(Nat) /\ Len(c) = 1 + Len(user) + Len(pass) /\ c[1] = f[1]
      /\ \A i \in 1..Len(user) : c[1 + i] = f[1 + i]
      /\ \A i \in 1..Len(pass) : c[1 + Len(user) + i] = pass[i]
  BY <1>1, <1>3, <1>4
<1> QED
  BY <1>1, <1>3, <1>5 DEF c

\* The user name and the password are told apart whatever they are.
LEMMA CredsRead ==
    ASSUME NEW user \in Seq(Nat), NEW pass \in Seq(Nat), Fits(creds(user, pass))
    PROVE  /\ parse_credentials(creds(user, pass)).bytes = user
           /\ parse_credentials(creds(user, pass)).rest = pass
<1> DEFINE c == creds(user, pass)
<1>1. /\ c \in Seq(Nat) /\ Len(c) = 1 + Len(user) + Len(pass)
      /\ Len(user) \in Nat /\ Len(pass) \in Nat /\ c[1] = Len(user) % LenMod
      /\ \A i \in 1..Len(user) : c[1 + i] = user[i]
      /\ \A i \in 1..Len(pass) : c[1 + Len(user) + i] = pass[i]
  BY CredsCells
<1>2. Len(user) < LenMod
  <2>1. Len(c) < LenMod
    BY DEF Fits
  <2> HIDE DEF c
  <2> QED
    BY <1>1, <2>1, Sizes
<1> HIDE DEF c
<1>3. BeginsWith(c, user, pass)
  <2>1. c[1] = Len(user)
    BY <1>1, <1>2, LenModType
  <2> QED
    BY <1>1, <2>1 DEF BeginsWith
<1>4. ~Truncated(c) /\ read_field(c).bytes = user /\ read_field(c).rest = pass
  BY <1>1, <1>3, FieldRead
<1> QED
  BY <1>4 DEF parse_credentials, c

\* Only the credentials themselves are accepted.
LEMMA AcceptsExact ==
    ASSUME NEW auth0 \in (Names \X Names) \cup {None}, NEW login0 \in Names \X Names,
           Fits(creds(login0[1], login0[2])),
           Accepts(auth0, creds(login0[1], login0[2]))
    PROVE  auth0 \in {None, login0}
<1>1. login0[1] \in Seq(Nat) /\ login0[2] \in Seq(Nat)
  <2>1. login0[1] \in Names /\ login0[2] \in Names
    OBVIOUS
  <2> QED
    BY <2>1, WireAssumption
<1>2. auth0 = None \/ (login0[1] = auth0[1] /\ login0[2] = auth0[2])
  BY <1>1, CredsRead DEF Accepts
<1>3. \A x, y \in Names \X Names : x[1] = y[1] /\ x[2] = y[2] => x = y
  OBVIOUS
<1> QED
  BY <1>2, <1>3

-----------------------------------------------------------------------------
Parsed == [op: 0..4, key: Seq(Cells), ttl: Cells \cup {None}, val: Seq(Cells)]

\* Whatever is parsed, the value is shorter than the payload it came in.
LEMMA ParseType ==
    ASSUME NEW buf \in Seq(Nat)
    PROVE  /\ parse(buf) \in Parsed /\ Len(buf) \in Nat
           /\ parse(buf).val \in Seq(Nat)
           /\ Len(parse(buf).val) = 0 \/ Len(parse(buf).val) + 2 <= Len(buf)
<1>1. Len(buf) \in Nat /\ <<>> \in Seq(Nat) /\ Len(<<>>) = 0
  BY LenProperties, EmptySeq
<1> DEFINE p == parse(buf)
           Small(v) == Len(v) = 0 \/ Len(v) + 2 <= Len(buf)
<1> SUFFICES \E op \in 0..4, key \in Seq(Nat), ttl \in Nat \cup {None}, val \in Seq(Nat) :
                 Small(val) /\ p = [op |-> op, key |-> key, ttl |-> ttl, val |-> val]
  <2> HIDE DEF p
  <2>1. PICK op \in 0..4, key \in Seq(Nat), ttl \in Nat \cup {None}, val \in Seq(Nat) :
                 Small(val) /\ p = [op |-> op, key |-> key, ttl |-> ttl, val |-> val]
    OBVIOUS
  <2>a. Small(val) /\ p = [op |-> op, key |-> key, ttl |-> ttl, val |-> val]
    BY <2>1
  <2> HIDE DEF Small
  <2>2. p \in Parsed /\ p.val = val
    <3> DEFINE rec == [op |-> op, key |-> key, ttl |-> ttl, val |-> val]
    <3>1. rec \in Parsed
      BY DEF Parsed, Cells
    <3>2. rec.val = val
      OBVIOUS
    <3>3. p = rec
      BY <2>a
    <3> HIDE DEF rec
    <3> QED
      BY <3>1, <3>2, <3>3
  <2> QED
    BY <1>1, <2>a, <2>2 DEF p, Small
<1>a. Small(<<>>)
  BY <1>1
<1>2. CASE p = Malformed
  <2>1. p = [op |-> 0, key |-> <<>>, ttl |-> None, val |-> <<>>]
    BY <1>2 DEF Malformed
  <2>2. 0 \in 0..4
    OBVIOUS
  <2> HIDE DEF p, Small
  <2> QED
    BY <1>1, <1>a, <2>1, <2>2
<1>3. CASE p # Malformed
  <2>1. buf # <<>> /\ ~Truncated(Tail(buf))
    BY <1>3 DEF parse
  <2> DEFINE t == Tail(buf)
             f == read_field(t)
             b == f.bytes
             r == f.rest
  <2>2. t \in Seq(Nat) /\ Len(t) = Len(buf) - 1
    BY <2>1, HeadTailProperties
  <2>3. ~Truncated(t)
    BY <2>1
  <2> DEFINE isKey == buf[1] \in {OP_GET, OP_DEL}
             isSet == buf[1] = OP_SET
             isSetex == buf[1] = OP_SETEX /\ r # <<>>
             keyed == [op |-> buf[1], key |-> b, ttl |-> None, val |-> <<>>]
             set == [op |-> OP_SET, key |-> b, ttl |-> None, val |-> r]
             setex == [op |-> OP_SETEX, key |-> b, ttl |-> r[1], val |-> Tail(r)]
  <2>5. p = CASE isKey -> keyed [] isSet -> set [] isSetex -> setex [] OTHER -> Malformed
    BY <2>1 DEF parse
  <2>11. ~(isKey /\ isSet) /\ ~(isKey /\ isSetex) /\ ~(isSet /\ isSetex)
    BY DEF OP_GET, OP_DEL, OP_SET, OP_SETEX
  <2>12. (isKey => p = keyed) /\ (isSet => p = set) /\ (isSetex => p = setex)
         /\ (isKey \/ isSet \/ isSetex)
    <3> HIDE DEF isKey, isSet, isSetex, keyed, set, setex, p
    <3> QED
      BY <1>3, <2>5, <2>11
  <2> HIDE DEF t, p
  <2>4. /\ b \in Seq(Nat) /\ r \in Seq(Nat) /\ t[1] \in Nat /\ Len(t) \in Nat
        /\ Len(r) = Len(t) - (1 + t[1])
    BY <2>2, <2>3, FieldType
  <2> HIDE DEF f, b, r
  <2>6. Len(r) \in Nat /\ Len(r) + 2 <= Len(buf)
    <3>1. Len(r) \in Nat
      BY <2>4, LenProperties
    <3> QED
      BY <1>1, <2>2, <2>4, <3>1
  <2>7. CASE buf[1] \in {OP_GET, OP_DEL}
    <3>1. p = [op |-> buf[1], key |-> b, ttl |-> None, val |-> <<>>]
      BY <2>7, <2>12
    <3>2. buf[1] \in 0..4
      BY <2>7 DEF OP_GET, OP_DEL
    <3>3. None \in Nat \cup {None}
      OBVIOUS
    <3> HIDE DEF Small
    <3> QED
      BY <1>1, <1>a, <2>4, <3>1, <3>2, <3>3
  <2>8. CASE buf[1] = OP_SET
    <3>1. p = [op |-> 2, key |-> b, ttl |-> None, val |-> r]
      BY <2>8, <2>12 DEF OP_SET
    <3>2. Small(r)
      BY <2>4, <2>6
    <3>3. 2 \in 0..4
      OBVIOUS
    <3> HIDE DEF Small
    <3> QED
      BY <2>4, <3>1, <3>2, <3>3
  <2>9. CASE buf[1] = OP_SETEX /\ r # <<>>
    <3>1. p = [op |-> 4, key |-> b, ttl |-> r[1], val |-> Tail(r)]
      BY <2>9, <2>12 DEF OP_SETEX
    <3>2. Tail(r) \in Seq(Nat) /\ Len(Tail(r)) = Len(r) - 1
      BY <2>4, <2>9, HeadTailProperties
    <3>3. r[1] \in Nat
      <4>1. 1 \in 1..Len(r)
        BY <2>4, <2>6, <2>9, EmptySeq
      <4> QED
        BY <2>4, <4>1, ElementOfSeq
    <3>4. Small(Tail(r))
      BY <1>1, <2>6, <3>2
    <3>5. 4 \in 0..4
      OBVIOUS
    <3> HIDE DEF Small
    <3> QED
      BY <2>4, <3>1, <3>2, <3>3, <3>4, <3>5
  <2> QED
    BY <2>7, <2>8, <2>9, <2>12
<1> QED
  BY <1>2, <1>3

\* What a command looks like on the wire.
LEMMA EncodeCells ==
    ASSUME NEW cmd \in Command
    PROVE  LET e == encode(cmd)
               x == IF cmd.op = OP_SETEX THEN <<cmd.ttl>> ELSE <<>>
           IN  /\ cmd.key \in Seq(Nat) /\ cmd.val \in Seq(Nat) /\ x \in Seq(Nat)
               /\ e \in Seq(Nat) /\ Len(e) = 2 + Len(cmd.key) + Len(x) + Len(cmd.val)
               /\ Len(cmd.key) \in Nat /\ Len(x) \in Nat /\ Len(cmd.val) \in Nat
               /\ e[1] = cmd.op /\ e[2] = Len(cmd.key) % LenMod
               /\ \A i \in 1..Len(cmd.key) : e[2 + i] = cmd.key[i]
               /\ \A i \in 1..Len(x) : e[2 + Len(cmd.key) + i] = x[i]
               /\ \A i \in 1..Len(cmd.val) : e[2 + Len(cmd.key) + Len(x) + i] = cmd.val[i]
<1> DEFINE x == IF cmd.op = OP_SETEX THEN <<cmd.ttl>> ELSE <<>>
           k == cmd.key
           v == cmd.val
           o == <<cmd.op>>
           f == field(k)
           a == o \o f
           b == a \o x
           e == b \o v
<1>1. k \in Seq(Nat) /\ v \in Seq(Nat) /\ x \in Seq(Nat) /\ cmd.op \in Nat
  <2>1. <<>> \in Seq(Nat) /\ \A z \in TTLs : <<z>> \in Seq(Nat)
    BY WireAssumption, EmptySeq
  <2>2. cmd.key \in Keys /\ (cmd.val = <<>> \/ cmd.val \in Values)
        /\ (cmd.op = OP_SETEX => cmd.ttl \in TTLs) /\ cmd.op \in Nat
    BY DEF Command, OP_GET, OP_SET, OP_DEL, OP_SETEX
  <2> QED
    BY <2>1, <2>2, WireAssumption
<1>2. o \in Seq(Nat) /\ Len(o) = 1 /\ o[1] = cmd.op
  BY <1>1
<1>3. encode(cmd) = e
  BY DEF encode
<1> HIDE DEF x, k, v, o
<1>4. /\ f \in Seq(Nat) /\ Len(k) \in Nat /\ Len(f) = 1 + Len(k) /\ f[1] = Len(k) % LenMod
      /\ \A i \in 1..Len(k) : f[1 + i] = k[i]
  BY <1>1, FieldCells
<1> HIDE DEF f
<1>5. /\ a \in Seq(Nat) /\ Len(a) = Len(o) + Len(f)
      /\ \A i \in 1..Len(o) : a[i] = o[i]
      /\ \A i \in 1..Len(f) : a[Len(o) + i] = f[i]
  BY <1>2, <1>4, ConcatCells
<1> HIDE DEF a
<1>6. /\ b \in Seq(Nat) /\ Len(x) \in Nat /\ Len(b) = Len(a) + Len(x)
      /\ \A i \in 1..Len(a) : b[i] = a[i]
      /\ \A i \in 1..Len(x) : b[Len(a) + i] = x[i]
  BY <1>1, <1>5, ConcatCells
<1> HIDE DEF b
<1>7. /\ e \in Seq(Nat) /\ Len(v) \in Nat /\ Len(e) = Len(b) + Len(v)
      /\ \A i \in 1..Len(b) : e[i] = b[i]
      /\ \A i \in 1..Len(v) : e[Len(b) + i] = v[i]
  BY <1>1, <1>6, ConcatCells
<1> HIDE DEF e
<1>8. Len(a) = 2 + Len(k) /\ Len(b) = 2 + Len(k) + Len(x) /\ Len(e) = 2 + Len(k) + Len(x) + Len(v)
  BY <1>2, <1>4, <1>5, <1>6, <1>7
<1>9. e[1] = cmd.op /\ e[2] = f[1] /\ \A i \in 1..Len(k) : e[2 + i] = k[i]
  <2>1. \A i \in 1..Len(a) : i \in 1..Len(b) /\ e[i] = a[i]
    <3>1. Len(a) \in Nat /\ Len(b) \in Nat /\ Len(a) <= Len(b)
      BY <1>4, <1>6, <1>8
    <3>2. \A i \in 1..Len(a) : i \in 1..Len(b)
      BY <3>1
    <3> QED
      BY <1>6, <1>7, <3>2
  <2>2. a[1] = cmd.op /\ a[2] = f[1] /\ \A i \in 1..Len(k) : a[2 + i] = k[i]
    <3>1. \A i \in 1..Len(f) : a[1 + i] = f[i]
      BY <1>2, <1>5
    <3>2. 1 \in 1..Len(f) /\ \A i \in 1..Len(k) : 1 + i \in 1..Len(f) /\ 1 + (1 + i) = 2 + i
      BY <1>4
    <3>3. a[1] = cmd.op
      BY <1>2, <1>5
    <3>4. a[2] = f[1]
      BY <3>1, <3>2
    <3>5. \A i \in 1..Len(k) : a[2 + i] = k[i]
      <4> TAKE i \in 1..Len(k)
      <4>1. a[1 + (1 + i)] = f[1 + i]
        BY <3>1, <3>2
      <4> QED
        BY <1>4, <3>2, <4>1
    <3> QED
      BY <3>3, <3>4, <3>5
  <2>3. 1 \in 1..Len(a) /\ 2 \in 1..Len(a) /\ \A i \in 1..Len(k) : 2 + i \in 1..Len(a)
    BY <1>4, <1>8
  <2> QED
    BY <2>1, <2>2, <2>3
<1>10. \A i \in 1..Len(x) : e[2 + Len(k) + i] = x[i]
  <2> TAKE i \in 1..Len(x)
  <2>1. Len(a) + i \in 1..Len(b) /\ Len(a) + i = 2 + Len(k) + i
    BY <1>4, <1>6, <1>8
  <2>2. e[Len(a) + i] = b[Len(a) + i] /\ b[Len(a) + i] = x[i]
    BY <1>6, <1>7, <2>1
  <2> QED
    BY <2>1, <2>2
<1>11. \A i \in 1..Len(v) : e[2 + Len(k) + Len(x) + i] = v[i]
  BY <1>7, <1>8
<1> QED
  BY <1>1, <1>3, <1>4, <1>6, <1>7, <1>8, <1>9, <1>10, <1>11 DEF x, k, v

\* A command is parsed as it was encoded.
LEMMA ParseEncode ==
    ASSUME NEW cmd \in Command, Fits(encode(cmd))
    PROVE  parse(encode(cmd)) = cmd
<1> DEFINE e == encode(cmd)
           x == IF cmd.op = OP_SETEX THEN <<cmd.ttl>> ELSE <<>>
           k == cmd.key
           v == cmd.val
           t == Tail(e)
           r == x \o v
<1>1. /\ k \in Seq(Nat) /\ v \in Seq(Nat) /\ x \in Seq(Nat)
      /\ e \in Seq(Nat) /\ Len(e) = 2 + Len(k) + Len(x) + Len(v)
      /\ Len(k) \in Nat /\ Len(x) \in Nat /\ Len(v) \in Nat
      /\ e[1] = cmd.op /\ e[2] = Len(k) % LenMod
      /\ \A i \in 1..Len(k) : e[2 + i] = k[i]
      /\ \A i \in 1..Len(x) : e[2 + Len(k) + i] = x[i]
      /\ \A i \in 1..Len(v) : e[2 + Len(k) + Len(x) + i] = v[i]
  BY EncodeCells
<1>2. Len(e) < LenMod
  BY DEF Fits
<1>3. Len(x) = (IF cmd.op = OP_SETEX THEN 1 ELSE 0)
  OBVIOUS
<1> HIDE DEF e, k, v, x
<1>4. /\ r \in Seq(Nat) /\ Len(r) = Len(x) + Len(v)
      /\ \A i \in 1..Len(x) : r[i] = x[i]
      /\ \A i \in 1..Len(v) : r[Len(x) + i] = v[i]
  BY <1>1, ConcatCells
<1> HIDE DEF r
<1>5. e # <<>> /\ t \in Seq(Nat) /\ Len(t) = Len(e) - 1 /\ \A i \in 1..Len(t) : t[i] = e[i + 1]
  <2>1. e # <<>>
    BY <1>1, EmptySeq
  <2>2. t \in Seq(Nat) /\ Len(t) = Len(e) - 1 /\ \A i \in 1..Len(Tail(e)) : Tail(e)[i] = e[i + 1]
    BY <1>1, <2>1, HeadTailProperties
  <2> QED
    BY <2>1, <2>2
<1> HIDE DEF t
<1>6. BeginsWith(t, k, r)
  <2>1. Len(t) \in Nat /\ Len(t) = 1 + Len(k) + Len(r) /\ Len(r) \in Nat
    BY <1>1, <1>4, <1>5
  <2>2. t[1] = Len(k)
    <3>1. Len(k) < LenMod
      BY <1>1, <1>2, Sizes
    <3>2. Len(k) % LenMod = Len(k)
      BY <1>1, <3>1, LenModType
    <3>3. 1 \in 1..Len(t) /\ 1 + 1 = 2
      BY <1>1, <2>1
    <3> QED
      BY <1>1, <1>5, <3>2, <3>3
  <2>3. \A i \in 1..Len(k) : t[1 + i] = k[i]
    <3> TAKE i \in 1..Len(k)
    <3>1. 1 + i \in 1..Len(t) /\ (1 + i) + 1 = 2 + i
      BY <1>1, <2>1
    <3> QED
      BY <1>1, <1>5, <3>1
  <2>4. \A i \in 1..Len(r) : t[1 + Len(k) + i] = r[i]
    <3> TAKE i \in 1..Len(r)
    <3>1. 1 + Len(k) + i \in 1..Len(t) /\ (1 + Len(k) + i) + 1 = 2 + Len(k) + i
      BY <1>1, <2>1
    <3>2. t[1 + Len(k) + i] = e[2 + Len(k) + i]
      BY <1>5, <3>1
    <3>3. CASE i <= Len(x)
      <4>1. i \in 1..Len(x)
        BY <1>1, <2>1, <3>3
      <4> QED
        BY <1>1, <1>4, <3>2, <4>1
    <3>4. CASE ~(i <= Len(x))
      <4>1. PICK j \in 1..Len(v) : i = Len(x) + j
        <5>1. i - Len(x) \in 1..Len(v) /\ i = Len(x) + (i - Len(x))
          BY <1>1, <1>4, <2>1, <3>4
        <5> QED
          BY <5>1
      <4>2. 2 + Len(k) + Len(x) + j = 2 + Len(k) + i
        BY <1>1, <4>1
      <4>3. e[2 + Len(k) + Len(x) + j] = v[j] /\ r[Len(x) + j] = v[j]
        BY <1>1, <1>4
      <4> QED
        BY <3>2, <4>1, <4>2, <4>3
    <3> QED
      BY <3>3, <3>4
  <2> QED
    BY <2>1, <2>2, <2>3, <2>4 DEF BeginsWith
<1>7. ~Truncated(t) /\ read_field(t).bytes = k /\ read_field(t).rest = r
  BY <1>1, <1>4, <1>5, <1>6, FieldRead
<1> DEFINE isKey == cmd.op \in {OP_GET, OP_DEL}
           isSet == cmd.op = OP_SET
           isSetex == cmd.op = OP_SETEX /\ r # <<>>
           keyed == [op |-> cmd.op, key |-> k, ttl |-> None, val |-> <<>>]
           set == [op |-> OP_SET, key |-> k, ttl |-> None, val |-> r]
           setex == [op |-> OP_SETEX, key |-> k, ttl |-> r[1], val |-> Tail(r)]
<1>8. parse(e) = CASE isKey -> keyed [] isSet -> set [] isSetex -> setex [] OTHER -> Malformed
  <2>1. ~(e = <<>> \/ Truncated(Tail(e)))
    BY <1>5, <1>7 DEF t
  <2>2. Tail(e) = t /\ e[1] = cmd.op
    BY <1>1 DEF t
  <2> QED
    BY <1>7, <2>1, <2>2 DEF parse
<1>9. ~(isKey /\ isSet) /\ ~(isKey /\ isSetex) /\ ~(isSet /\ isSetex)
  BY DEF OP_GET, OP_DEL, OP_SET, OP_SETEX
<1>10. (isKey => parse(e) = keyed) /\ (isSet => parse(e) = set) /\ (isSetex => parse(e) = setex)
  <2> HIDE DEF isKey, isSet, isSetex, keyed, set, setex
  <2> QED
    BY <1>8, <1>9
<1>11. CASE cmd \in [op: {OP_GET, OP_DEL}, key: Keys, ttl: {None}, val: {<<>>}]
  <2>1. cmd = keyed /\ isKey
    BY <1>11 DEF k
  <2> QED
    BY <1>10, <2>1 DEF e
<1>12. CASE cmd \in [op: {OP_SET}, key: Keys, ttl: {None}, val: Values]
  <2>1. cmd = [op |-> OP_SET, key |-> k, ttl |-> None, val |-> v] /\ cmd.op = OP_SET
    BY <1>12 DEF k, v
  <2>2. x = <<>>
    BY <2>1 DEF x, OP_SET, OP_SETEX
  <2>3. r = v
    BY <1>1, <2>2, ConcatEmptySeq DEF r
  <2> QED
    BY <1>10, <2>1, <2>3 DEF e
<1>13. CASE cmd \in [op: {OP_SETEX}, key: Keys, ttl: TTLs, val: Values]
  <2>1. cmd = [op |-> OP_SETEX, key |-> k, ttl |-> cmd.ttl, val |-> v] /\ cmd.op = OP_SETEX
    BY <1>13 DEF k, v
  <2>2. Len(x) = 1 /\ x[1] = cmd.ttl
    BY <2>1 DEF x
  <2>3. Len(r) = 1 + Len(v) /\ r[1] = x[1] /\ \A i \in 1..Len(v) : r[1 + i] = v[i]
    BY <1>1, <1>4, <2>2
  <2>4. r # <<>>
    BY <1>1, <2>3, EmptySeq
  <2>5. Tail(r) \in Seq(Nat) /\ Len(Tail(r)) = Len(r) - 1 /\ \A i \in 1..Len(Tail(r)) : Tail(r)[i] = r[i + 1]
    BY <1>4, <2>4, HeadTailProperties
  <2>6. Tail(r) = v
    <3> DEFINE w == Tail(r)
    <3> HIDE DEF w
    <3>0. w \in Seq(Nat) /\ Len(w) = Len(r) - 1 /\ \A i \in 1..Len(w) : w[i] = r[i + 1]
      BY <2>5 DEF w
    <3>1. Len(w) = Len(v)
      BY <1>1, <2>3, <3>0
    <3>2. \A i \in 1..Len(w) : w[i] = v[i]
      <4>1. \A i \in 1..Len(v) : i + 1 = 1 + i
        OBVIOUS
      <4> QED
        BY <2>3, <3>0, <3>1, <4>1
    <3>3. w = v
      BY <1>1, <3>0, <3>1, <3>2, SeqEqual
    <3> QED
      BY <3>3 DEF w
  <2>7. setex = [op |-> OP_SETEX, key |-> k, ttl |-> cmd.ttl, val |-> v]
    BY <2>2, <2>3, <2>6
  <2>8. isSetex
    BY <2>1, <2>4
  <2> QED
    BY <1>10, <2>1, <2>7, <2>8 DEF e
<1> QED
  BY <1>11, <1>12, <1>13 DEF Command

\* A value that fits its length is read back from a response.
LEMMA DecodeResponse ==
    ASSUME NEW id \in Nat, NEW val \in Seq(Nat), Len(val) < LenMod, Len(val) <= MAX_FRAME_SIZE
    PROVE  /\ decode(response(id, val)).kind = RESPONSE
           /\ decode(response(id, val)).payload = val
<1> DEFINE f == response(id, val)
<1>1. IsFrame(f, 4, id, val)
  BY DEF IsFrame, response, RESPONSE
<1> HIDE DEF f
<1>2. /\ f \in Seq(Nat) /\ Len(val) \in Nat /\ Len(f) = 3 + Len(val)
      /\ f[1] = 4 /\ f[2] = id /\ f[3] = Len(val) % LenMod
  BY <1>1, FrameCells
<1>3. f[3] = Len(val)
  BY <1>2, LenModType
<1>4. decode(f) \notin {Incomplete, Bad}
  <2>1. decode(f) = [kind |-> f[1], id |-> f[2], payload |-> SubSeq(f, 4, 3 + f[3])]
    <3>1. ~(Len(f) < 3) /\ ~(f[3] > MAX_FRAME_SIZE) /\ ~(Len(f) < 3 + f[3])
      BY <1>2, <1>3, Sizes
    <3>2. f[1] \in FrameKinds
      BY <1>2 DEF FrameKinds, RESPONSE
    <3> QED
      BY <3>1, <3>2 DEF decode, FRAME_HEAD_LEN
  <2>2. decode(f).kind = 4
    BY <1>2, <2>1
  <2> QED
    BY <2>2 DEF Incomplete, Bad
<1>5. decode(f) = [kind |-> 4, id |-> id, payload |-> val]
  <2>1. Fits(val)
    BY DEF Fits
  <2> QED
    BY <1>1, <1>2, <1>4, <2>1, DecodeFrame
<1> QED
  BY <1>5 DEF f, RESPONSE

-----------------------------------------------------------------------------
(***************************************************************************)
(* The invariant.  Where the client's frames end in the stream is a        *)
(* function: ends[0] for the handshake, ends[i] for the i-th request.  As  *)
(* long as the server is in the undamaged part, it stands at such an end.  *)
(***************************************************************************)
Greeting == frame(HANDSHAKE, 0, creds(login[1], login[2]))
RequestFrame(m) == frame(REQUEST, m.id, encode(m.cmd))

\* The request m is written between the cells a and b, and its length fits.
WrittenBetween(a, b, m) ==
    b = a + Len(RequestFrame(m)) /\ WrittenAt(a, RequestFrame(m)) /\ Fits(encode(m.cmd))

Framed(ends) ==
    /\ ends[0] = Len(Greeting)
    /\ \A i \in 1..Undamaged : WrittenBetween(ends[i - 1], ends[i], sent[i])
    /\ intact = None => Len(stream) = ends[Undamaged] /\ Len(got) <= Undamaged
    /\ server = "serving" /\ (Len(got) < Undamaged \/ intact = None) => consumed = ends[Len(got)]
    /\ DecodedAsSent

FramingInv ==
    IF Fits(creds(login[1], login[2]))
    THEN \E ends \in [0..Undamaged -> Nat] : Framed(ends)
    ELSE intact = 0

\* The server has read nothing before the handshake, the first thing written.
StartInv ==
    /\ WrittenAt(0, Greeting)
    /\ server = "handshake" => consumed = 0 /\ got = <<>>

CountInv == Len(sent) <= calls /\ (intact # None => intact <= Len(sent))

\* A value is shorter than the frame it came in.
ValueInv ==
    \A i \in 1..Len(got) :
        Len(got[i].cmd.val) = 0 \/ Len(got[i].cmd.val) + 2 <= MAX_FRAME_SIZE

Inv == TypeOK /\ CountInv /\ StartInv /\ ValueInv /\ AuthExact /\ FramingInv

-----------------------------------------------------------------------------
LEMMA RequestCells ==
    ASSUME NEW id \in Ids, NEW cmd \in Command
    PROVE  LET f == frame(REQUEST, id, encode(cmd))
           IN  /\ id \in Nat /\ encode(cmd) \in Seq(Nat) /\ IsFrame(f, 3, id, encode(cmd))
               /\ f \in Seq(Nat) /\ Len(encode(cmd)) \in Nat /\ Len(f) = 3 + Len(encode(cmd))
<1>1. id \in Nat
  BY WireAssumption
<1>2. encode(cmd) \in Seq(Nat)
  BY EncodeCells
<1>3. IsFrame(frame(REQUEST, id, encode(cmd)), 3, id, encode(cmd))
  BY DEF IsFrame, frame, REQUEST
<1> QED
  BY <1>1, <1>2, <1>3, FrameCells

LEMMA GreetingCells ==
    ASSUME TypeOK
    PROVE  LET c == creds(login[1], login[2])
           IN  /\ c \in Seq(Nat) /\ IsFrame(Greeting, 1, 0, c)
               /\ Greeting \in Seq(Nat) /\ Len(c) \in Nat /\ Len(Greeting) = 3 + Len(c)
<1>1. login[1] \in Seq(Nat) /\ login[2] \in Seq(Nat)
  <2>1. login[1] \in Names /\ login[2] \in Names
    BY DEF TypeOK
  <2> QED
    BY <2>1, WireAssumption
<1>2. creds(login[1], login[2]) \in Seq(Nat)
  BY <1>1, CredsCells
<1>3. IsFrame(Greeting, 1, 0, creds(login[1], login[2]))
  BY DEF IsFrame, frame, HANDSHAKE, Greeting
<1> QED
  BY <1>2, <1>3, FrameCells

\* The server's buffer is the part of the stream that it has received and not decoded.
LEMMA BufferCells ==
    ASSUME TypeOK
    PROVE  /\ Buffered \in Seq(Nat) /\ Len(Buffered) = received - consumed
           /\ \A i \in 1..Len(Buffered) : Buffered[i] = stream[consumed + i]
           /\ consumed \in Nat /\ received \in Nat /\ consumed <= received
           /\ Len(stream) \in Nat /\ received <= Len(stream)
<1>1. stream \in Seq(Nat) /\ Len(stream) \in Nat
  BY LenProperties DEF TypeOK, Cells
<1>2. consumed \in Nat /\ received \in Nat /\ consumed <= received /\ received <= Len(stream)
  BY <1>1 DEF TypeOK
<1> DEFINE m == consumed + 1
           b == SubSeq(stream, m, received)
<1>3. m \in Nat \ {0} /\ received - m + 1 = received - consumed /\ (m <= received <=> received # consumed)
  BY <1>2
<1> HIDE DEF m
<1>4. /\ b \in Seq(Nat) /\ Len(b) = (IF m <= received THEN received - m + 1 ELSE 0)
      /\ \A i \in 1..(received - m + 1) : b[i] = stream[m + i - 1]
  BY <1>1, <1>2, <1>3, SubSeqCells
<1> HIDE DEF b
<1>5. Len(b) = received - consumed
  BY <1>2, <1>3, <1>4
<1>6. \A i \in 1..Len(b) : m + i - 1 = consumed + i
  BY <1>2, <1>5 DEF m
<1>7. \A i \in 1..Len(b) : b[i] = stream[consumed + i]
  BY <1>3, <1>4, <1>5, <1>6
<1>8. Buffered = b
  BY DEF Buffered, b, m
<1> QED
  BY <1>1, <1>2, <1>4, <1>5, <1>7, <1>8

\* A frame the server takes lies inside what it has received.
LEMMA NextFrameType ==
    ASSUME TypeOK, Next_frame \notin {Incomplete, Bad}
    PROVE  /\ Next_frame.id \in Nat /\ Next_frame.payload \in Seq(Nat)
           /\ Len(Next_frame.payload) \in Nat /\ Len(Next_frame.payload) <= MAX_FRAME_SIZE
           /\ consumed + 3 + Len(Next_frame.payload) <= received
<1>1. /\ Buffered \in Seq(Nat) /\ Len(Buffered) = received - consumed
      /\ consumed \in Nat /\ received \in Nat
  BY BufferCells
<1> DEFINE b == Buffered
           p == SubSeq(b, 4, 3 + b[3])
<1> HIDE DEF b
<1>2. /\ b[2] \in Nat /\ b[3] \in Nat /\ b[3] <= MAX_FRAME_SIZE /\ 3 + b[3] <= Len(b)
      /\ decode(b) = [kind |-> b[1], id |-> b[2], payload |-> p]
      /\ p \in Seq(Nat) /\ Len(p) = b[3]
  BY <1>1, DecodeType DEF Next_frame, b
<1> HIDE DEF p
<1>3. Next_frame.id = b[2] /\ Next_frame.payload = p
  BY <1>2 DEF Next_frame, b
<1>4. consumed + 3 + b[3] <= received
  BY <1>1, <1>2 DEF b
<1> QED
  BY <1>2, <1>3, <1>4

\* A frame written where the server stands is the next one it takes.
LEMMA NextFrameIs ==
    ASSUME TypeOK, Next_frame \notin {Incomplete, Bad},
           NEW kind \in Nat, NEW id \in Nat, NEW payload \in Seq(Nat), Fits(payload),
           NEW f, IsFrame(f, kind, id, payload), WrittenAt(consumed, f)
    PROVE  Next_frame = [kind |-> kind, id |-> id, payload |-> payload]
<1>1. /\ Buffered \in Seq(Nat) /\ Len(Buffered) \in Nat
      /\ \A i \in 1..Len(Buffered) : Buffered[i] = stream[consumed + i]
  BY BufferCells, LenProperties
<1>2. Len(f) \in Nat
  BY FrameCells, LenProperties
<1>3. \A i \in 1..Len(f) : i <= Len(Buffered) => Buffered[i] = f[i]
  <2> SUFFICES ASSUME NEW i \in 1..Len(f), i <= Len(Buffered)
               PROVE  Buffered[i] = f[i]
    OBVIOUS
  <2>1. i \in 1..Len(Buffered)
    BY <1>1, <1>2
  <2> QED
    BY <1>1, <2>1 DEF WrittenAt
<1> DEFINE b == Buffered
<1>4. decode(b) \notin {Incomplete, Bad}
  BY DEF Next_frame
<1> HIDE DEF b
<1>5. decode(b) = [kind |-> kind, id |-> id, payload |-> payload]
  BY <1>1, <1>3, <1>4, DecodeFrame DEF b
<1> QED
  BY <1>5 DEF Next_frame, b

\* What is written stays written.
LEMMA WrittenStays ==
    ASSUME stream \in Seq(Nat), NEW s \in Seq(Nat), stream' = stream \o s,
           NEW a \in Nat, NEW x \in Seq(Nat), WrittenAt(a, x)
    PROVE  WrittenAt(a, x)'
<1>1. /\ stream' \in Seq(Nat) /\ Len(stream) \in Nat /\ Len(s) \in Nat /\ Len(x) \in Nat
      /\ Len(stream') = Len(stream) + Len(s)
      /\ \A i \in 1..Len(stream) : stream'[i] = stream[i]
  BY ConcatCells, LenProperties
<1>2. a + Len(x) <= Len(stream) /\ \A i \in 1..Len(x) : stream[a + i] = x[i]
  BY DEF WrittenAt
<1>3. a + Len(x) <= Len(stream') /\ \A i \in 1..Len(x) : a + i \in 1..Len(stream)
  BY <1>1, <1>2
<1>4. \A i \in 1..Len(x) : stream'[a + i] = x[i]
  BY <1>1, <1>2, <1>3
<1> QED
  BY <1>3, <1>4 DEF WrittenAt

-----------------------------------------------------------------------------
Message == [id: Ids, cmd: Command]
Received == [id: Cells, cmd: Parsed]

\* What a client writes, as cells: a whole frame, or the first part of one.
LEMMA ClientWrites ==
    ASSUME NEW id \in Ids, NEW cmd \in Command, TypeOK,
           \/ Call(id, cmd)
           \/ Cancel(id, cmd)
    PROVE  \E s \in Seq(Nat) : stream' = stream \o s
<1> DEFINE f == frame(REQUEST, id, encode(cmd))
<1>1. f \in Seq(Nat) /\ Len(f) \in Nat
  BY RequestCells, LenProperties
<1>2. CASE Call(id, cmd)
  BY <1>1, <1>2 DEF Call
<1>3. CASE Cancel(id, cmd)
  <2>1. PICK n \in 1..(Len(f) - 1) : stream' = stream \o SubSeq(f, 1, n)
    BY <1>3 DEF Cancel
  <2> HIDE DEF f
  <2>2. n \in Nat /\ n <= Len(f)
    BY <1>1, <2>1
  <2>3. SubSeq(f, 1, n) \in Seq(Nat)
    BY <1>1, <2>2, SubSeqCells
  <2> QED
    BY <2>1, <2>3
<1> QED
  BY <1>2, <1>3

LEMMA TypeInit == Init => TypeOK /\ CountInv
<1> SUFFICES ASSUME Init PROVE TypeOK /\ CountInv
  OBVIOUS
<1>1. auth \in (Names \X Names) \cup {None}
  BY DEF Init, auth_of
<1>2. login \in Names \X Names
  BY DEF Init
<1>3. stream \in Seq(Nat)
  <2>1. login[1] \in Seq(Nat) /\ login[2] \in Seq(Nat)
    <3>1. login[1] \in Names /\ login[2] \in Names
      BY <1>2
    <3> QED
      BY <3>1, WireAssumption
  <2> DEFINE c == creds(login[1], login[2])
  <2>2. c \in Seq(Nat)
    BY <2>1, CredsCells
  <2>3. IsFrame(stream, 1, 0, c)
    BY DEF Init, frame, HANDSHAKE, IsFrame
  <2> HIDE DEF c
  <2> QED
    BY <2>2, <2>3, FrameCells
<1>4. /\ sent = <<>> /\ got = <<>> /\ calls = 0 /\ received = 0 /\ consumed = 0
      /\ server = "handshake" /\ intact \in {0, None}
  BY DEF Init
<1>5. sent \in Seq([id: Ids, cmd: Command]) /\ Len(sent) = 0
  BY <1>4, EmptySeq
<1>6. got \in Seq([id: Cells, cmd: [op: 0..4, key: Seq(Cells), ttl: Cells \cup {None}, val: Seq(Cells)]])
  BY <1>4, EmptySeq
<1>7. Len(stream) \in Nat
  BY <1>3, LenProperties
<1>8. 0 \in 0..MaxCalls
  BY WireAssumption
<1>9. received \in 0..Len(stream) /\ consumed \in 0..received
  BY <1>4, <1>7
<1>10. TypeOK
  BY <1>1, <1>2, <1>3, <1>4, <1>5, <1>6, <1>8, <1>9 DEF TypeOK, Cells
<1> QED
  BY <1>4, <1>5, <1>10 DEF CountInv

LEMMA TypeClient ==
    ASSUME TypeOK, CountInv, NEW id \in Ids, NEW cmd \in Command,
           \/ Call(id, cmd)
           \/ Cancel(id, cmd)
    PROVE  TypeOK' /\ CountInv'
<1>1. PICK s \in Seq(Nat) : stream' = stream \o s
  BY ClientWrites
<1>2. stream' \in Seq(Nat) /\ Len(stream) \in Nat /\ Len(stream') \in Nat /\ Len(stream) <= Len(stream')
  <2>1. stream \in Seq(Nat)
    BY DEF TypeOK, Cells
  <2>2. /\ stream' \in Seq(Nat) /\ Len(stream) \in Nat /\ Len(s) \in Nat
        /\ Len(stream') = Len(stream) + Len(s)
    BY <1>1, <2>1, ConcatCells
  <2> QED
    BY <2>2
<1>3. UNCHANGED <<auth, login, received, consumed, got, server>> /\ calls < MaxCalls /\ calls' = calls + 1
  BY DEF Call, Cancel, Begin, serverVars
<1>4. calls' \in 0..MaxCalls /\ calls \in Nat
  BY <1>3, WireAssumption DEF TypeOK
<1>5. received' \in 0..Len(stream') /\ consumed' \in 0..received'
  BY <1>2, <1>3 DEF TypeOK
<1>6. sent \in Seq(Message) /\ Len(sent) \in Nat /\ Len(sent) <= calls
  BY LenProperties DEF TypeOK, Message, CountInv
<1>7. \/ sent' = Append(sent, [id |-> id, cmd |-> cmd])
      \/ sent' = sent
  BY DEF Call, Cancel
<1>8. sent' \in Seq(Message) /\ Len(sent') \in {Len(sent), Len(sent) + 1}
  <2> DEFINE m == [id |-> id, cmd |-> cmd]
  <2>1. m \in Message
    BY DEF Message
  <2> HIDE DEF m
  <2>2. Append(sent, m) \in Seq(Message) /\ Len(Append(sent, m)) = Len(sent) + 1
    BY <1>6, <2>1, AppendProperties
  <2> QED
    BY <1>6, <1>7, <2>2 DEF m
<1>9. intact' = intact \/ intact' = Len(sent)
  BY DEF Call, Cancel, Damaged
<1>10. Len(sent') <= calls' /\ (intact' # None => intact' <= Len(sent'))
  <2>1. Len(sent') <= calls'
    BY <1>3, <1>4, <1>6, <1>8
  <2>2. ASSUME intact' # None PROVE intact' <= Len(sent')
    <3>1. CASE intact' = Len(sent)
      BY <1>6, <1>8, <3>1
    <3>2. CASE intact' = intact
      <4>1. intact \in Nat /\ intact <= Len(sent)
        BY <2>2, <3>2 DEF TypeOK, CountInv
      <4> QED
        BY <1>6, <1>8, <3>2, <4>1
    <3> QED
      BY <1>9, <3>1, <3>2
  <2> QED
    BY <2>1, <2>2
<1>11. intact' \in 0..MaxCalls \cup {None}
  <2>1. CASE intact' = intact
    BY <2>1 DEF TypeOK
  <2>2. CASE intact' = Len(sent)
    BY <1>3, <1>4, <1>6, <2>2, WireAssumption
  <2> QED
    BY <1>9, <2>1, <2>2
<1>12. TypeOK'
  BY <1>2, <1>3, <1>4, <1>5, <1>8, <1>11 DEF TypeOK, Cells, Message
<1> QED
  BY <1>10, <1>12 DEF CountInv

LEMMA TypeServer ==
    ASSUME TypeOK, CountInv, Reader
    PROVE  TypeOK' /\ CountInv'
<1>0. UNCHANGED <<auth, clientVars>>
  BY DEF Reader, Receive, Handshake, Decode, DecodeFails
<1>1. CountInv'
  BY <1>0 DEF CountInv, clientVars
<1>2. /\ consumed \in Nat /\ received \in Nat /\ consumed <= received
      /\ Len(stream) \in Nat /\ received <= Len(stream)
  BY BufferCells
<1>3. CASE \E n \in 1..Len(stream) : Receive(n)
  <2>1. PICK n \in 1..Len(stream) : Receive(n)
    BY <1>3
  <2>2. /\ n <= Len(stream) - received /\ received' = received + n
        /\ UNCHANGED <<auth, clientVars, consumed, got, server>>
    BY <2>1 DEF Receive
  <2>3. received' \in 0..Len(stream) /\ consumed \in 0..received'
    BY <1>2, <2>2
  <2> QED
    BY <1>1, <2>2, <2>3 DEF TypeOK, clientVars
<1>4. CASE Handshake
  <2>1. /\ consumed' = consumed + 3 + Len(Next_frame.payload) /\ server' \in {"serving", "ended"}
        /\ UNCHANGED <<auth, clientVars, received, got>> /\ Next_frame \notin {Incomplete, Bad}
    BY <1>4 DEF Handshake, Take, FRAME_HEAD_LEN
  <2>2. consumed' \in 0..received
    <3> DEFINE n == Len(Next_frame.payload)
    <3>1. n \in Nat /\ consumed + 3 + n <= received
      BY <2>1, NextFrameType
    <3>2. consumed' = consumed + 3 + n
      BY <2>1
    <3> HIDE DEF n
    <3> QED
      BY <1>2, <3>1, <3>2
  <2> QED
    BY <1>1, <2>1, <2>2 DEF TypeOK, clientVars
<1>5. CASE Decode
  <2> DEFINE f == Next_frame
             m == [id |-> f.id, cmd |-> parse(f.payload)]
  <2>1. /\ consumed' = consumed + 3 + Len(f.payload)
        /\ got' = got \/ got' = Append(got, m)
        /\ UNCHANGED <<auth, clientVars, received, server>> /\ f \notin {Incomplete, Bad}
    BY <1>5 DEF Decode, Take, FRAME_HEAD_LEN
  <2>2. f.id \in Nat /\ f.payload \in Seq(Nat) /\ Len(f.payload) \in Nat /\ consumed + 3 + Len(f.payload) <= received
    BY <2>1, NextFrameType
  <2> HIDE DEF f
  <2>3. consumed' \in 0..received
    <3> DEFINE n == Len(f.payload)
    <3>1. n \in Nat /\ consumed + 3 + n <= received /\ consumed' = consumed + 3 + n
      BY <2>1, <2>2
    <3> HIDE DEF n
    <3> QED
      BY <1>2, <3>1
  <2>4. got \in Seq(Received)
    BY DEF TypeOK, Received, Parsed
  <2>5. m \in Received
    <3>1. parse(f.payload) \in Parsed
      BY <2>2, ParseType
    <3> QED
      BY <2>2, <3>1 DEF Received, Cells
  <2>6. got' \in Seq(Received)
    <3> HIDE DEF m
    <3> QED
      BY <2>1, <2>4, <2>5, AppendProperties
  <2> QED
    BY <1>1, <2>1, <2>3, <2>6 DEF TypeOK, clientVars, Received, Parsed
<1>6. CASE DecodeFails
  BY <1>1, <1>6 DEF DecodeFails, TypeOK, clientVars
<1> QED
  BY <1>3, <1>4, <1>5, <1>6 DEF Reader

LEMMA TypeStep ==
    ASSUME TypeOK, CountInv, [Next]_vars
    PROVE  TypeOK' /\ CountInv'
<1>1. CASE UNCHANGED vars
  BY <1>1 DEF vars, clientVars, serverVars, TypeOK, CountInv
<1>2. CASE Reader
  BY <1>2, TypeServer
<1>3. CASE \E id \in Ids, cmd \in Command : Call(id, cmd) \/ Cancel(id, cmd)
  BY <1>3, TypeClient
<1> QED
  BY <1>1, <1>2, <1>3 DEF Next, Finished

(***************************************************************************)
(* The server stays inside what it has received and the stream stays cells *)
(* whatever the client writes; requests and their counts have their types. *)
(***************************************************************************)
THEOREM TypeCorrect == Spec => []TypeOK
<1>1. Init => TypeOK /\ CountInv
  BY TypeInit
<1>2. TypeOK /\ CountInv /\ [Next]_vars => (TypeOK /\ CountInv)'
  BY TypeStep
<1> QED
  BY <1>1, <1>2, PTL DEF Spec

-----------------------------------------------------------------------------
\* The frame the server takes while it waits for the handshake is the client's.
LEMMA HandshakeFrame ==
    ASSUME TypeOK, StartInv, Handshake, Fits(creds(login[1], login[2]))
    PROVE  Next_frame = [kind |-> 1, id |-> 0, payload |-> creds(login[1], login[2])]
<1>1. creds(login[1], login[2]) \in Seq(Nat) /\ IsFrame(Greeting, 1, 0, creds(login[1], login[2]))
  BY GreetingCells
<1>2. WrittenAt(consumed, Greeting) /\ Next_frame \notin {Incomplete, Bad}
  BY DEF StartInv, Handshake
<1> HIDE DEF Greeting
<1> QED
  BY <1>1, <1>2, NextFrameIs

LEMMA ClientKeeps ==
    ASSUME NEW id \in Ids, NEW cmd \in Command,
           \/ Call(id, cmd)
           \/ Cancel(id, cmd)
    PROVE  UNCHANGED <<auth, login, received, consumed, got, server>> /\ server = "serving"
BY DEF Call, Cancel, Begin, serverVars

LEMMA StartStep ==
    ASSUME TypeOK, StartInv, [Next]_vars
    PROVE  StartInv'
<1>1. CASE UNCHANGED vars
  BY <1>1 DEF vars, clientVars, serverVars, StartInv, WrittenAt, Greeting
<1>2. CASE Reader
  <2>1. WrittenAt(0, Greeting)'
    BY <1>2 DEF Reader, Receive, Handshake, Decode, DecodeFails, clientVars, StartInv, WrittenAt, Greeting
  <2>2. server' = "handshake" => UNCHANGED <<server, consumed, got>>
    BY <1>2 DEF Reader, Receive, Handshake, Decode, DecodeFails
  <2> QED
    BY <2>1, <2>2 DEF StartInv
<1>3. ASSUME NEW id \in Ids, NEW cmd \in Command,
             \/ Call(id, cmd)
             \/ Cancel(id, cmd)
      PROVE  StartInv'
  <2>1. PICK s \in Seq(Nat) : stream' = stream \o s
    BY <1>3, ClientWrites
  <2>2. login' = login /\ server' = "serving"
    BY <1>3, ClientKeeps
  <2>3. Greeting \in Seq(Nat) /\ stream \in Seq(Nat)
    BY GreetingCells DEF TypeOK, Cells
  <2>4. WrittenAt(0, Greeting) /\ Greeting' = Greeting
    BY <2>2 DEF StartInv, Greeting
  <2>5. \A x \in Seq(Nat) : WrittenAt(0, x) => WrittenAt(0, x)'
    BY <2>1, <2>3, WrittenStays
  <2>6. WrittenAt(0, Greeting)'
    <3>1. PICK x \in Seq(Nat) : x = Greeting
      BY <2>3
    <3>2. WrittenAt(0, x)' /\ x = Greeting'
      BY <2>4, <2>5, <3>1
    <3> QED
      BY <3>2 DEF WrittenAt
  <2> QED
    BY <2>2, <2>6 DEF StartInv
<1> QED
  BY <1>1, <1>2, <1>3 DEF Next, Finished

LEMMA AuthStep ==
    ASSUME TypeOK, StartInv, AuthExact, [Next]_vars
    PROVE  AuthExact'
<1>1. CASE UNCHANGED vars
  BY <1>1 DEF vars, clientVars, serverVars, AuthExact
<1>2. CASE Handshake
  <2> SUFFICES ASSUME (server = "serving")', Fits(creds(login[1], login[2]))
               PROVE  auth \in {None, login}
    BY <1>2 DEF Handshake, clientVars, AuthExact
  <2>1. Next_frame = [kind |-> 1, id |-> 0, payload |-> creds(login[1], login[2])]
    BY <1>2, HandshakeFrame
  <2>2. Accepts(auth, Next_frame.payload)
    BY <1>2 DEF Handshake
  <2>3. Accepts(auth, creds(login[1], login[2]))
    BY <2>1, <2>2
  <2> QED
    BY <2>3, AcceptsExact DEF TypeOK
<1>3. CASE Reader /\ ~Handshake
  BY <1>3 DEF Reader, Receive, Decode, DecodeFails, clientVars, AuthExact
<1>4. ASSUME NEW id \in Ids, NEW cmd \in Command,
             \/ Call(id, cmd)
             \/ Cancel(id, cmd)
      PROVE  AuthExact'
  BY <1>4, ClientKeeps DEF AuthExact
<1> QED
  BY <1>1, <1>2, <1>3, <1>4 DEF Next, Finished, Reader

LEMMA ValueStep ==
    ASSUME TypeOK, ValueInv, [Next]_vars
    PROVE  ValueInv'
<1>1. CASE UNCHANGED got
  BY <1>1 DEF ValueInv
<1>2. CASE Decode /\ ~UNCHANGED got
  <2> DEFINE f == Next_frame
             c == parse(f.payload)
             m == [id |-> f.id, cmd |-> c]
             Small(z) == Len(z.cmd.val) = 0 \/ Len(z.cmd.val) + 2 <= MAX_FRAME_SIZE
  <2>1. got' = Append(got, m) /\ f \notin {Incomplete, Bad}
    BY <1>2 DEF Decode
  <2>2. f.id \in Nat /\ f.payload \in Seq(Nat) /\ Len(f.payload) \in Nat /\ Len(f.payload) <= MAX_FRAME_SIZE
    BY <2>1, NextFrameType
  <2> HIDE DEF f
  <2>3. c \in Parsed /\ c.val \in Seq(Nat) /\ (Len(c.val) = 0 \/ Len(c.val) + 2 <= Len(f.payload))
    BY <2>2, ParseType
  <2> HIDE DEF c
  <2>4. m \in Received /\ m.cmd = c
    BY <2>2, <2>3 DEF Received, Cells
  <2>5. Small(m)
    <3>1. Len(c.val) \in Nat
      BY <2>3, LenProperties
    <3>2. Len(c.val) = 0 \/ Len(c.val) + 2 <= MAX_FRAME_SIZE
      <4> DEFINE n == Len(c.val)
                 l == Len(f.payload)
      <4>1. n \in Nat /\ l \in Nat /\ l <= MAX_FRAME_SIZE /\ (n = 0 \/ n + 2 <= l)
        BY <2>2, <2>3, <3>1
      <4> HIDE DEF n, l
      <4>2. n = 0 \/ n + 2 <= MAX_FRAME_SIZE
        BY <4>1, Sizes
      <4> QED
        BY <4>2 DEF n
    <3> QED
      BY <2>4, <3>2
  <2>6. got \in Seq(Received)
    BY DEF TypeOK, Received, Parsed
  <2> HIDE DEF m
  <2>7. /\ Len(got) \in Nat /\ Len(got') = Len(got) + 1 /\ got'[Len(got) + 1] = m
        /\ \A i \in 1..Len(got) : got'[i] = got[i]
    BY <2>1, <2>4, <2>6, AppendProperties, LenProperties
  <2>8. \A i \in 1..Len(got) : Small(got[i])
    BY DEF ValueInv
  <2>9. \A i \in 1..Len(got') : Small(got'[i])
    <3> HIDE DEF Small
    <3> TAKE i \in 1..Len(got')
    <3>1. i \in 1..Len(got) \/ i = Len(got) + 1
      BY <2>7
    <3> QED
      BY <2>5, <2>7, <2>8, <3>1
  <2> QED
    BY <2>9 DEF ValueInv
<1> QED
  <2>1. UNCHANGED got \/ Decode
    BY ClientKeeps DEF Next, Finished, Reader, Receive, Handshake, DecodeFails, vars, serverVars
  <2> QED
    BY <1>1, <1>2, <2>1

-----------------------------------------------------------------------------
\* The framing is kept: first by the server.
LEMMA UndamagedType ==
    ASSUME TypeOK, CountInv
    PROVE  /\ Undamaged \in Nat /\ Undamaged <= Len(sent) /\ Len(sent) \in Nat /\ Len(got) \in Nat
           /\ intact = None => Undamaged = Len(sent)
           /\ \A i \in 1..Undamaged : sent[i] \in Message
<1>1. sent \in Seq(Message) /\ Len(sent) \in Nat /\ Len(got) \in Nat
  BY LenProperties DEF TypeOK, Message
<1>2. Undamaged \in Nat /\ Undamaged <= Len(sent)
  BY <1>1 DEF TypeOK, CountInv, Undamaged
<1>3. \A i \in 1..Undamaged : i \in 1..Len(sent)
  BY <1>1, <1>2
<1>4. \A i \in 1..Undamaged : sent[i] \in Message
  BY <1>1, <1>3, ElementOfSeq
<1> QED
  BY <1>1, <1>2, <1>4 DEF Undamaged

LEMMA MessageFrame ==
    ASSUME NEW m \in Message
    PROVE  /\ m.id \in Ids /\ m.cmd \in Command /\ m = [id |-> m.id, cmd |-> m.cmd]
           /\ m.id \in Nat /\ encode(m.cmd) \in Seq(Nat) /\ Len(encode(m.cmd)) \in Nat
           /\ IsFrame(RequestFrame(m), 3, m.id, encode(m.cmd))
           /\ RequestFrame(m) \in Seq(Nat) /\ Len(RequestFrame(m)) = 3 + Len(encode(m.cmd))
<1>1. m.id \in Ids /\ m.cmd \in Command /\ m = [id |-> m.id, cmd |-> m.cmd]
  BY DEF Message
<1> QED
  BY <1>1, RequestCells DEF RequestFrame

LEMMA DecodedMessage ==
    ASSUME TypeOK, Decode
    PROVE  /\ got \in Seq(Received)
           /\ [id |-> Next_frame.id, cmd |-> parse(Next_frame.payload)] \in Received
<1> DEFINE f == Next_frame
<1>1. f.id \in Nat /\ f.payload \in Seq(Nat)
  BY NextFrameType DEF Decode
<1> HIDE DEF f
<1>2. parse(f.payload) \in Parsed
  BY <1>1, ParseType
<1>3. [id |-> f.id, cmd |-> parse(f.payload)] \in Received
  BY <1>1, <1>2 DEF Received, Cells
<1>4. got \in Seq(Received)
  BY DEF TypeOK, Received, Parsed
<1> QED
  BY <1>3, <1>4 DEF f

\* What of the framing does not depend on the server's state.
Laid(ends) ==
    /\ ends[0] = Len(Greeting)
    /\ \A i \in 1..Undamaged : WrittenBetween(ends[i - 1], ends[i], sent[i])
    /\ intact = None => Len(stream) = ends[Undamaged]

LEMMA LaidStays ==
    ASSUME UNCHANGED clientVars, NEW ends
    PROVE  (Laid(ends) <=> Laid(ends)') /\ Undamaged' = Undamaged
BY DEF Laid, clientVars, Greeting, Undamaged, WrittenBetween, WrittenAt

LEMMA FramedHandshake ==
    ASSUME TypeOK, CountInv, StartInv, Fits(creds(login[1], login[2])),
           NEW ends \in [0..Undamaged -> Nat], Framed(ends), Handshake
    PROVE  Framed(ends)'
<1> DEFINE c == creds(login[1], login[2])
<1>1. Next_frame = [kind |-> 1, id |-> 0, payload |-> c]
  BY HandshakeFrame
<1>2. Len(c) \in Nat /\ Len(Greeting) = 3 + Len(c)
  BY GreetingCells
<1>3. consumed' = 0 + 3 + Len(c) /\ got = <<>> /\ UNCHANGED clientVars /\ got' = got
  <2>1. consumed = 0 /\ got = <<>>
    BY DEF Handshake, StartInv
  <2> QED
    BY <1>1, <2>1 DEF Handshake, Take, FRAME_HEAD_LEN
<1> HIDE DEF c
<1>4. consumed' = Len(Greeting) /\ Len(got) = 0
  BY <1>2, <1>3
<1>5. Laid(ends) /\ (intact = None => Len(got) <= Undamaged)
  BY DEF Framed, Laid
<1>6. Laid(ends)' /\ Undamaged' = Undamaged
  BY <1>3, <1>5, LaidStays
<1>7. consumed' = ends[Len(got)]
  BY <1>4, <1>5 DEF Laid
<1>8. DecodedAsSent'
  <2>1. \A i \in 1..Undamaged : ~(i <= Len(got))
    BY <1>4, UndamagedType
  <2> QED
    BY <1>3, <1>6, <2>1 DEF DecodedAsSent
<1>9. (intact = None => Len(got) <= Undamaged)'
  BY <1>3, <1>5, <1>6 DEF clientVars
<1>10. (consumed = ends[Len(got)])'
  BY <1>3, <1>7
<1> QED
  BY <1>6, <1>8, <1>9, <1>10 DEF Framed, Laid

LEMMA FramedDecode ==
    ASSUME TypeOK, CountInv,
           NEW ends \in [0..Undamaged -> Nat], Framed(ends), Decode
    PROVE  Framed(ends)'
<1> DEFINE n == Undamaged
           g == Len(got)
           f == Next_frame
           d == [id |-> f.id, cmd |-> parse(f.payload)]
<1>1. UNCHANGED <<clientVars, received>> /\ server = "serving" /\ f \notin {Incomplete, Bad}
  BY DEF Decode
<1>2. consumed' = consumed + 3 + Len(f.payload)
  BY DEF Decode, Take, FRAME_HEAD_LEN
<1>3. got' = IF f.kind = 3 THEN Append(got, d) ELSE got
  BY DEF Decode, REQUEST
<1>4. n \in Nat /\ g \in Nat
  BY UndamagedType
<1>5. Laid(ends) /\ (intact = None => g <= n) /\ (g < n \/ intact = None => consumed = ends[g])
      /\ \A i \in 1..n : i <= g => got[i] = sent[i]
  BY <1>1 DEF Framed, Laid, DecodedAsSent
<1>6. Laid(ends)' /\ Undamaged' = n /\ sent' = sent /\ intact' = intact
  BY <1>1, <1>5, LaidStays DEF clientVars
<1>7. /\ Len(Append(got, d)) = g + 1 /\ Append(got, d)[g + 1] = d
      /\ \A i \in 1..g : Append(got, d)[i] = got[i]
  BY DecodedMessage, AppendProperties
<1> HIDE DEF d
<1>8. CASE g < n
  <2> DEFINE m == sent[g + 1]
             e == encode(m.cmd)
  <2>1. g + 1 \in 1..n /\ (g + 1) - 1 = g
    BY <1>4, <1>8
  <2>2. m \in Message
    BY <2>1, UndamagedType
  <2>3. ends[g + 1] = ends[g] + Len(RequestFrame(m)) /\ WrittenAt(ends[g], RequestFrame(m)) /\ Fits(e)
    <3>1. WrittenBetween(ends[(g + 1) - 1], ends[g + 1], m)
      BY <1>5, <2>1 DEF Laid
    <3> QED
      BY <2>1, <3>1 DEF WrittenBetween
  <2>4. consumed = ends[g] /\ ends[g] \in Nat
    BY <1>4, <1>5, <1>8
  <2> HIDE DEF m
  <2>5. /\ m.cmd \in Command /\ m = [id |-> m.id, cmd |-> m.cmd]
        /\ m.id \in Nat /\ e \in Seq(Nat) /\ Len(e) \in Nat
        /\ IsFrame(RequestFrame(m), 3, m.id, e) /\ Len(RequestFrame(m)) = 3 + Len(e)
    BY <2>2, MessageFrame
  <2> HIDE DEF e
  <2>6. f = [kind |-> 3, id |-> m.id, payload |-> e]
    BY <1>1, <2>3, <2>4, <2>5, NextFrameIs
  <2>7. d = m
    <3>1. parse(e) = m.cmd
      BY <2>3, <2>5, ParseEncode DEF e
    <3> QED
      BY <2>5, <2>6, <3>1 DEF d
  <2>8. got' = Append(got, d) /\ consumed' = ends[g] + 3 + Len(e)
    BY <1>2, <1>3, <2>4, <2>6
  <2>9. consumed' = ends[g + 1]
    <3>1. ends[g + 1] = ends[g] + (3 + Len(e))
      BY <2>3, <2>5
    <3>2. \A x, y \in Nat : x + (3 + y) = x + 3 + y
      OBVIOUS
    <3> QED
      BY <2>4, <2>5, <2>8, <3>1, <3>2
  <2>10. Len(got') = g + 1 /\ g + 1 <= n
    <3>1. g + 1 <= n
      BY <1>4, <1>8
    <3> QED
      BY <1>7, <2>8, <3>1
  <2>11. \A i \in 1..n : i <= g + 1 => got'[i] = sent[i]
    <3> SUFFICES ASSUME NEW i \in 1..n, i <= g + 1
                 PROVE  got'[i] = sent[i]
      OBVIOUS
    <3>1. i = g + 1 \/ i \in 1..g
      BY <1>4
    <3>2. CASE i = g + 1
      BY <1>7, <2>7, <2>8, <3>2 DEF m
    <3>3. CASE i \in 1..g
      <4>1. i <= g
        BY <1>4, <3>3
      <4> QED
        BY <1>5, <1>7, <2>8, <3>3, <4>1
    <3> QED
      BY <3>1, <3>2, <3>3
  <2>12. (intact = None => Len(got) <= Undamaged)' /\ (consumed = ends[Len(got)])' /\ DecodedAsSent'
    BY <1>6, <2>9, <2>10, <2>11 DEF DecodedAsSent
  <2> QED
    BY <1>6, <2>12 DEF Framed, Laid
<1>9. CASE ~(g < n)
  <2>1. intact # None
    <3> SUFFICES ASSUME intact = None PROVE FALSE
      OBVIOUS
    <3>1. g = n
      BY <1>4, <1>5, <1>9
    <3>2. consumed = Len(stream)
      BY <1>5, <3>1 DEF Laid
    <3> DEFINE l == Len(f.payload)
    <3>3. l \in Nat /\ consumed + 3 + l <= received
      BY <1>1, NextFrameType
    <3>4. consumed \in Nat /\ received \in Nat /\ received <= Len(stream)
      BY BufferCells
    <3> HIDE DEF l
    <3> QED
      BY <3>2, <3>3, <3>4
  <2>2. Len(got') \in {g, g + 1} /\ \A i \in 1..g : got'[i] = got[i]
    BY <1>3, <1>7
  <2>3. ~(Len(got') < n)
    BY <1>4, <1>9, <2>2
  <2>4. \A i \in 1..n : i \in 1..g /\ i <= g
    BY <1>4, <1>9
  <2>5. DecodedAsSent'
    BY <1>5, <1>6, <2>2, <2>4 DEF DecodedAsSent
  <2> QED
    BY <1>6, <2>1, <2>3, <2>5 DEF Framed, Laid
<1> QED
  BY <1>8, <1>9

LEMMA FramedServer ==
    ASSUME TypeOK, CountInv, StartInv, FramingInv, Reader
    PROVE  FramingInv'
<1>1. UNCHANGED clientVars
  BY DEF Reader, Receive, Handshake, Decode, DecodeFails
<1>2. Undamaged' = Undamaged /\ login' = login /\ intact' = intact
  BY <1>1 DEF clientVars, Undamaged
<1>3. CASE Fits(creds(login[1], login[2]))
  <2>1. PICK ends \in [0..Undamaged -> Nat] : Framed(ends)
    BY <1>3 DEF FramingInv
  <2>2. Framed(ends)'
    <3>1. CASE (\E k \in 1..Len(stream) : Receive(k)) \/ DecodeFails
      <4>1. UNCHANGED <<clientVars, consumed, got>> /\ (server' = server \/ server' = "ended")
        BY <3>1 DEF Receive, DecodeFails
      <4>2. Laid(ends)'
        BY <1>1, <2>1, LaidStays DEF Framed, Laid
      <4>3. DecodedAsSent' /\ (intact = None => Len(got) <= Undamaged)'
        BY <1>2, <2>1, <4>1 DEF Framed, DecodedAsSent, clientVars
      <4>4. (server = "serving" /\ (Len(got) < Undamaged \/ intact = None) => consumed = ends[Len(got)])'
        BY <1>2, <2>1, <4>1 DEF Framed
      <4> QED
        BY <4>2, <4>3, <4>4 DEF Framed, Laid
    <3>2. CASE Handshake
      BY <1>3, <2>1, <3>2, FramedHandshake
    <3>3. CASE Decode
      BY <2>1, <3>3, FramedDecode
    <3> QED
      BY <3>1, <3>2, <3>3 DEF Reader
  <2>3. ends \in [0..Undamaged' -> Nat]
    BY <1>2
  <2>4. (\E x \in [0..Undamaged -> Nat] : Framed(x))'
    BY <2>2, <2>3
  <2>5. Fits(creds(login[1], login[2]))'
    BY <1>2, <1>3 DEF Fits
  <2> QED
    BY <2>4, <2>5 DEF FramingInv
<1>4. CASE ~Fits(creds(login[1], login[2]))
  BY <1>2, <1>4 DEF FramingInv, Fits
<1> QED
  BY <1>3, <1>4

-----------------------------------------------------------------------------
\* Then by the client: a whole request extends the undamaged part.
LEMMA BetweenStays ==
    ASSUME stream \in Seq(Nat), NEW s \in Seq(Nat), stream' = stream \o s,
           NEW a \in Nat, NEW b, NEW m \in Message, WrittenBetween(a, b, m)
    PROVE  WrittenBetween(a, b, m)'
<1>1. RequestFrame(m) \in Seq(Nat)
  BY MessageFrame
<1>2. \A x \in Seq(Nat) : WrittenAt(a, x) => WrittenAt(a, x)'
  BY WrittenStays
<1>3. WrittenAt(a, RequestFrame(m))'
  BY <1>1, <1>2 DEF WrittenBetween
<1> QED
  BY <1>3 DEF WrittenBetween

LEMMA FramedCall ==
    ASSUME TypeOK, CountInv, NEW id \in Ids, NEW cmd \in Command,
           Call(id, cmd), Fits(encode(cmd)), intact = None,
           NEW ends \in [0..Undamaged -> Nat], Framed(ends)
    PROVE  (\E x \in [0..Undamaged -> Nat] : Framed(x))'
<1> DEFINE n == Undamaged
           m == [id |-> id, cmd |-> cmd]
           f == RequestFrame(m)
           next == [i \in 0..(n + 1) |-> IF i = n + 1 THEN ends[n] + Len(f) ELSE ends[i]]
<1>1. /\ stream' = stream \o f /\ sent' = Append(sent, m) /\ intact' = None
      /\ UNCHANGED <<login, received, consumed, got, server>>
  BY DEF Call, RequestFrame, serverVars
<1>2. m \in Message
  BY DEF Message
<1> HIDE DEF m
<1>3. f \in Seq(Nat) /\ Len(f) \in Nat
  BY <1>2, MessageFrame, LenProperties
<1>4. n \in Nat /\ n = Len(sent) /\ Len(got) \in Nat
  BY UndamagedType
<1>5. /\ sent' \in Seq(Message) /\ Len(sent') = n + 1 /\ sent'[n + 1] = m
      /\ \A i \in 1..n : sent'[i] = sent[i] /\ sent[i] \in Message
  <2>1. sent \in Seq(Message)
    BY DEF TypeOK, Message
  <2>2. \A i \in 1..n : sent[i] \in Message
    BY UndamagedType
  <2> QED
    BY <1>1, <1>2, <1>4, <2>1, <2>2, AppendProperties
<1>6. Undamaged' = n + 1
  BY <1>1, <1>5 DEF Undamaged
<1>7. /\ stream \in Seq(Nat) /\ Len(stream) = ends[n] /\ Len(stream) \in Nat
      /\ Len(stream') = Len(stream) + Len(f)
      /\ \A i \in 1..Len(f) : stream'[Len(stream) + i] = f[i]
  <2>1. stream \in Seq(Nat) /\ Len(stream) = ends[n]
    BY DEF TypeOK, Cells, Framed
  <2> HIDE DEF f
  <2> QED
    BY <1>1, <1>3, <2>1, ConcatCells
<1>8. /\ ends[0] = Len(Greeting) /\ Len(got) <= n
      /\ \A i \in 1..n : WrittenBetween(ends[i - 1], ends[i], sent[i])
      /\ server = "serving" => consumed = ends[Len(got)]
      /\ DecodedAsSent
  BY DEF Framed
<1>9. /\ next \in [0..(n + 1) -> Nat] /\ next[n + 1] = ends[n] + Len(f)
      /\ \A i \in 0..n : next[i] = ends[i] /\ ends[i] \in Nat
  <2> HIDE DEF f
  <2>1. \A i \in 0..n : i \in 0..(n + 1) /\ i # n + 1
    BY <1>4
  <2>2. \A i \in 0..(n + 1) : i = n + 1 \/ i \in 0..n
    BY <1>4
  <2>3. n \in 0..n /\ n + 1 \in 0..(n + 1)
    BY <1>4
  <2>4. \A i \in 0..n : ends[i] \in Nat
    OBVIOUS
  <2>5. ends[n] + Len(f) \in Nat
    BY <1>3, <2>3, <2>4
  <2> QED
    BY <2>1, <2>2, <2>3, <2>4, <2>5
<1>a. PICK nx \in [0..(n + 1) -> Nat] :
          nx[n + 1] = ends[n] + Len(f) /\ \A i \in 0..n : nx[i] = ends[i] /\ ends[i] \in Nat
  <2> HIDE DEF next, n, f
  <2> QED
    BY <1>9
<1>10. (nx[0] = Len(Greeting))'
  <2>1. 0 \in 0..n
    BY <1>4
  <2> QED
    BY <1>1, <1>8, <1>a, <2>1 DEF Greeting
<1>11. \A i \in 1..(n + 1) : WrittenBetween(nx[i - 1], nx[i], sent[i])'
  <2> TAKE i \in 1..(n + 1)
  <2>1. CASE i = n + 1
    <3>1. i - 1 = n /\ n \in 0..n
      BY <1>4, <2>1
    <3>2. nx[i - 1] = Len(stream) /\ nx[i] = Len(stream) + Len(f) /\ sent'[i] = m
      BY <1>5, <1>7, <1>a, <2>1, <3>1
    <3>3. Fits(encode(m.cmd))
      BY DEF m
    <3>4. (Len(stream) + Len(f) <= Len(stream'))
      BY <1>3, <1>7
    <3>5. \A a : a = Len(stream) => WrittenAt(a, f)'
      BY <1>7, <3>4 DEF WrittenAt
    <3>6. WrittenAt(nx[i - 1], f)'
      BY <3>2, <3>5
    <3>7. WrittenBetween(nx[i - 1], nx[i], m)'
      BY <3>2, <3>3, <3>6 DEF WrittenBetween
    <3> QED
      BY <3>2, <3>7 DEF WrittenBetween, WrittenAt
  <2>2. CASE i # n + 1
    <3>1. i \in 1..n /\ i \in 0..n /\ i - 1 \in 0..n
      BY <1>4, <2>2
    <3>2. nx[i - 1] = ends[i - 1] /\ nx[i] = ends[i] /\ sent'[i] = sent[i]
          /\ ends[i - 1] \in Nat /\ sent[i] \in Message
      BY <1>5, <1>a, <3>1
    <3>3. WrittenBetween(ends[i - 1], ends[i], sent[i])
      BY <1>8, <3>1
    <3>4. \A a \in Nat, q \in Message : \A b : WrittenBetween(a, b, q) => WrittenBetween(a, b, q)'
      BY <1>1, <1>3, <1>7, BetweenStays
    <3>5. PICK q \in Message : q = sent[i]
      BY <3>2
    <3>6. WrittenBetween(ends[i - 1], ends[i], q)'
      BY <3>2, <3>3, <3>4, <3>5
    <3> QED
      BY <3>2, <3>5, <3>6 DEF WrittenBetween, WrittenAt
  <2> QED
    BY <2>1, <2>2
<1>12. (Len(stream) = nx[Undamaged] /\ Len(got) <= Undamaged)'
  BY <1>1, <1>4, <1>6, <1>7, <1>8, <1>a
<1>13. (server = "serving" => consumed = nx[Len(got)])'
  <2>1. Len(got) \in 0..n
    BY <1>4, <1>8
  <2> QED
    BY <1>1, <1>8, <1>a, <2>1
<1>14. DecodedAsSent'
  <2>1. \A i \in 1..(n + 1) : i <= Len(got) => i \in 1..n /\ got[i] = sent[i]
    BY <1>4, <1>8 DEF DecodedAsSent
  <2> QED
    BY <1>1, <1>5, <1>6, <2>1 DEF DecodedAsSent
<1>15. Framed(nx)'
  <2>1. \A i \in 1..Undamaged' : WrittenBetween(nx[i - 1], nx[i], sent[i])'
    BY <1>6, <1>11
  <2> QED
    BY <1>10, <1>12, <1>13, <1>14, <2>1 DEF Framed
<1> QED
  BY <1>6, <1>15

\* A frame behind damage, or one that is the damage, leaves the undamaged part alone.
LEMMA FramedDamage ==
    ASSUME TypeOK, CountInv, NEW id \in Ids, NEW cmd \in Command,
           \/ Call(id, cmd) /\ ~(Fits(encode(cmd)) /\ intact = None)
           \/ Cancel(id, cmd),
           NEW ends \in [0..Undamaged -> Nat], Framed(ends)
    PROVE  Framed(ends)' /\ Undamaged' = Undamaged
<1> DEFINE n == Undamaged
<1>1. PICK s \in Seq(Nat) : stream' = stream \o s
  BY ClientWrites
<1>2. UNCHANGED <<login, received, consumed, got, server>> /\ server = "serving"
  BY ClientKeeps
<1>3. n \in Nat /\ n <= Len(sent) /\ Len(sent) \in Nat /\ Len(got) \in Nat
      /\ \A i \in 1..n : sent[i] \in Message
  BY UndamagedType
<1>4. intact' # None /\ Undamaged' = n
  <2>1. IF intact = None THEN intact' = Len(sent) ELSE intact' = intact
    BY DEF Call, Cancel, Damaged
  <2>2. Len(sent) # None
    BY <1>3, WireAssumption
  <2> QED
    BY <2>1, <2>2 DEF Undamaged
<1>5. \A i \in 1..n : sent'[i] = sent[i]
  <2>1. sent \in Seq(Message) /\ [id |-> id, cmd |-> cmd] \in Message
    BY DEF TypeOK, Message
  <2>2. sent' = sent \/ sent' = Append(sent, [id |-> id, cmd |-> cmd])
    BY DEF Call, Cancel
  <2>3. \A i \in 1..n : i \in 1..Len(sent)
    BY <1>3
  <2> DEFINE m == [id |-> id, cmd |-> cmd]
  <2>4. m \in Message
    BY <2>1
  <2>5. sent' = sent \/ sent' = Append(sent, m)
    BY <2>2
  <2> HIDE DEF m
  <2>6. \A i \in 1..Len(sent) : Append(sent, m)[i] = sent[i]
    BY <2>1, <2>4, AppendProperties
  <2> QED
    BY <2>3, <2>5, <2>6
<1>6. /\ ends[0] = Len(Greeting)
      /\ \A i \in 1..n : WrittenBetween(ends[i - 1], ends[i], sent[i])
      /\ server = "serving" /\ (Len(got) < n \/ intact = None) => consumed = ends[Len(got)]
      /\ \A i \in 1..n : i <= Len(got) => got[i] = sent[i]
  BY DEF Framed, DecodedAsSent
<1>7. \A i \in 1..n : WrittenBetween(ends[i - 1], ends[i], sent[i])'
  <2> TAKE i \in 1..n
  <2>1. i - 1 \in 0..n
    BY <1>3
  <2>2. ends[i - 1] \in Nat
    BY <2>1
  <2>3. stream \in Seq(Nat)
    BY DEF TypeOK, Cells
  <2>4. \A a \in Nat, q \in Message : \A b : WrittenBetween(a, b, q) => WrittenBetween(a, b, q)'
    BY <1>1, <2>3, BetweenStays
  <2>5. PICK q \in Message : q = sent[i]
    BY <1>3
  <2>6. WrittenBetween(ends[i - 1], ends[i], q)'
    BY <1>6, <2>2, <2>4, <2>5
  <2> QED
    BY <1>5, <2>5, <2>6 DEF WrittenBetween, WrittenAt
<1>8. (ends[0] = Len(Greeting))'
  BY <1>2, <1>6 DEF Greeting
<1>9. (server = "serving" /\ (Len(got) < Undamaged \/ intact = None) => consumed = ends[Len(got)])'
  BY <1>2, <1>4, <1>6
<1>10. DecodedAsSent'
  BY <1>2, <1>4, <1>5, <1>6 DEF DecodedAsSent
<1>11. \A i \in 1..Undamaged' : WrittenBetween(ends[i - 1], ends[i], sent[i])'
  BY <1>4, <1>7
<1> QED
  BY <1>4, <1>8, <1>9, <1>10, <1>11 DEF Framed

LEMMA FramedClient ==
    ASSUME TypeOK, CountInv, FramingInv, NEW id \in Ids, NEW cmd \in Command,
           \/ Call(id, cmd)
           \/ Cancel(id, cmd)
    PROVE  FramingInv'
<1>1. login' = login
  BY ClientKeeps
<1>2. CASE Fits(creds(login[1], login[2]))
  <2>1. PICK ends \in [0..Undamaged -> Nat] : Framed(ends)
    BY <1>2 DEF FramingInv
  <2>2. (\E x \in [0..Undamaged -> Nat] : Framed(x))'
    <3>1. CASE Call(id, cmd) /\ Fits(encode(cmd)) /\ intact = None
      BY <2>1, <3>1, FramedCall
    <3>2. CASE ~(Call(id, cmd) /\ Fits(encode(cmd)) /\ intact = None)
      <4>1. Framed(ends)' /\ Undamaged' = Undamaged
        BY <2>1, <3>2, FramedDamage
      <4> QED
        BY <4>1
    <3> QED
      BY <3>1, <3>2
  <2>3. Fits(creds(login[1], login[2]))'
    BY <1>1, <1>2 DEF Fits
  <2> QED
    BY <2>2, <2>3 DEF FramingInv
<1>3. CASE ~Fits(creds(login[1], login[2]))
  <2>1. intact = 0 /\ intact # None
    BY <1>3, WireAssumption DEF FramingInv
  <2>2. intact' = intact
    BY <2>1 DEF Call, Cancel, Damaged
  <2> QED
    BY <1>1, <1>3, <2>1, <2>2 DEF FramingInv, Fits
<1> QED
  BY <1>2, <1>3

LEMMA FramingInit ==
    ASSUME Init
    PROVE  FramingInv /\ StartInv
<1>1. TypeOK
  BY TypeInit
<1>2. /\ stream = Greeting /\ sent = <<>> /\ got = <<>> /\ consumed = 0 /\ server = "handshake"
      /\ intact = IF Fits(creds(login[1], login[2])) THEN None ELSE 0
  BY DEF Init, Greeting
<1>3. Greeting \in Seq(Nat) /\ Len(Greeting) \in Nat
  BY <1>1, GreetingCells, LenProperties
<1>4. StartInv
  <2> HIDE DEF Greeting
  <2>1. 0 + Len(Greeting) <= Len(Greeting) /\ \A i \in 1..Len(Greeting) : 0 + i = i
    BY <1>3
  <2>2. WrittenAt(0, Greeting)
    BY <1>2, <2>1 DEF WrittenAt
  <2> QED
    BY <1>2, <2>2 DEF StartInv
<1>5. CASE Fits(creds(login[1], login[2]))
  <2> DEFINE l == Len(Greeting)
             ends == [i \in 0..0 |-> l]
  <2>1. intact = None /\ Undamaged = 0 /\ Len(got) = 0
    BY <1>2, <1>5 DEF Undamaged
  <2> HIDE DEF l
  <2>2. ends \in [0..Undamaged -> Nat] /\ ends[0] = l
    BY <1>3, <2>1 DEF l
  <2> HIDE DEF ends
  <2>3. DecodedAsSent
    BY <2>1 DEF DecodedAsSent
  <2>4. \A i \in 1..Undamaged : FALSE
    BY <2>1
  <2>5. ends[0] = Len(Greeting) /\ Len(stream) = Len(Greeting)
    BY <1>2, <2>2 DEF l
  <2>6. Framed(ends)
    BY <1>2, <2>1, <2>3, <2>4, <2>5 DEF Framed
  <2>7. \E x \in [0..Undamaged -> Nat] : Framed(x)
    BY <2>2, <2>6
  <2> QED
    BY <1>4, <1>5, <2>7 DEF FramingInv
<1>6. CASE ~Fits(creds(login[1], login[2]))
  <2>1. intact = 0
    BY <1>2, <1>6
  <2> QED
    BY <1>4, <1>6, <2>1 DEF FramingInv
<1> QED
  BY <1>4, <1>5, <1>6

LEMMA InvStep == Inv /\ [Next]_vars => Inv'
<1> SUFFICES ASSUME Inv, [Next]_vars PROVE Inv'
  OBVIOUS
<1> USE DEF Inv
<1>1. TypeOK' /\ CountInv'
  BY TypeStep
<1>2. StartInv' /\ ValueInv' /\ AuthExact'
  BY StartStep, ValueStep, AuthStep
<1>3. FramingInv'
  <2>1. CASE UNCHANGED vars
    BY <2>1 DEF vars, clientVars, serverVars, FramingInv, Framed, Undamaged, Fits, Greeting,
                WrittenBetween, WrittenAt, DecodedAsSent
  <2>2. CASE Reader
    BY <2>2, FramedServer
  <2>3. CASE \E id \in Ids, cmd \in Command : Call(id, cmd) \/ Cancel(id, cmd)
    BY <2>3, FramedClient
  <2> QED
    BY <2>1, <2>2, <2>3 DEF Next, Finished
<1> QED
  BY <1>1, <1>2, <1>3

LEMMA InvHolds == Spec => []Inv
<1>1. Init => Inv
  <2> SUFFICES ASSUME Init PROVE Inv
    OBVIOUS
  <2>1. TypeOK /\ CountInv /\ FramingInv /\ StartInv
    BY TypeInit, FramingInit
  <2>2. ValueInv /\ AuthExact
    BY DEF Init, ValueInv, AuthExact
  <2> QED
    BY <2>1, <2>2 DEF Inv
<1> QED
  BY <1>1, InvStep, PTL DEF Spec

-----------------------------------------------------------------------------
(***************************************************************************)
(* However FramedRead is handed the bytes, SimpleCodec.decode and          *)
(* ClientCommand::parse give back the requests of Client::call in order    *)
(* and unchanged, up to the first one that was cut off or did not fit.     *)
(***************************************************************************)
THEOREM FramingIsExact == Spec => []DecodedAsSent
<1>1. Inv => DecodedAsSent
  <2> SUFFICES ASSUME Inv PROVE DecodedAsSent
    OBVIOUS
  <2>1. CASE Fits(creds(login[1], login[2]))
    BY <2>1 DEF Inv, FramingInv, Framed
  <2>2. CASE ~Fits(creds(login[1], login[2]))
    <3>1. intact = 0 /\ intact # None
      BY <2>2, WireAssumption DEF Inv, FramingInv
    <3> QED
      BY <3>1 DEF DecodedAsSent, Undamaged
  <2> QED
    BY <2>1, <2>2
<1> QED
  BY <1>1, InvHolds, PTL

(***************************************************************************)
(* No stream, damaged or not, makes the server keep a value that           *)
(* SimpleCodec.encode could not send back: parse leaves at least the       *)
(* opcode and a key length out of it, and decode bounds the frame.         *)
(***************************************************************************)
THEOREM ValuesAlwaysFit == Spec => []ValuesFitResponses
<1>1. Inv => ValuesFitResponses
  <2> SUFFICES ASSUME Inv, NEW i \in 1..Len(got)
               PROVE  /\ decode(response(got[i].id, got[i].cmd.val)).kind = RESPONSE
                      /\ decode(response(got[i].id, got[i].cmd.val)).payload = got[i].cmd.val
    BY DEF ValuesFitResponses
  <2> DEFINE v == got[i].cmd.val
             id == got[i].id
  <2>1. id \in Nat /\ v \in Seq(Nat)
    <3>1. got \in Seq(Received)
      BY DEF Inv, TypeOK, Received, Parsed
    <3>2. got[i] \in Received
      BY <3>1, ElementOfSeq
    <3> QED
      BY <3>2 DEF Received, Parsed, Cells
  <2>2. Len(v) = 0 \/ Len(v) + 2 <= MAX_FRAME_SIZE
    BY DEF Inv, ValueInv
  <2>3. Len(v) \in Nat
    BY <2>1, LenProperties
  <2> HIDE DEF v, id
  <2>4. Len(v) < LenMod /\ Len(v) <= MAX_FRAME_SIZE
    BY <2>2, <2>3, Sizes
  <2>5. decode(response(id, v)).kind = RESPONSE /\ decode(response(id, v)).payload = v
    BY <2>1, <2>4, DecodeResponse
  <2> QED
    BY <2>5 DEF v, id
<1> QED
  BY <1>1, InvHolds, PTL

(***************************************************************************)
(* No user name and password other than the server's own are accepted by   *)
(* handle_connection, wherever the one ends and the other begins in the    *)
(* payload that connect sends.                                             *)
(***************************************************************************)
THEOREM OnlyTheCredentials == Spec => []AuthExact
BY InvHolds, PTL DEF Inv
=============================================================================
