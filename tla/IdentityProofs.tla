--------------------------- MODULE IdentityProofs ---------------------------
(***************************************************************************)
(* Proofs about module MsuIdentity, for every set of authentication        *)
(* requests made of texts and every information msu.bin may hold.          *)
(***************************************************************************)
EXTENDS MsuIdentity, LoopLemmas, SequenceTheorems

-----------------------------------------------------------------------------
(* Slices of a concatenation. *)

\* What is appended to a sequence leaves the slices of it as they are.
LEMMA SliceOfLonger ==
  ASSUME NEW S, NEW s \in Seq(S), NEW t \in Seq(S),
         NEW m \in Nat \ {0}, NEW n \in Nat, m <= n + 1, n <= Len(s)
  PROVE  SubSeq(s \o t, m, n) = SubSeq(s, m, n)
<1>0. s \o t \in Seq(S) /\ Len(s) \in Nat
  BY ConcatProperties, LenProperties
<1>1. CASE m <= n
  <2>1. m \in 1 .. Len(s) /\ n \in 1 .. Len(s)
    BY <1>0, <1>1
  <2> QED
    BY <2>1, SubSeqOfConcat1
<1>2. CASE m > n
  BY <1>0, <1>2, SubSeqEmpty
<1> QED
  BY <1>1, <1>2

\* The last part of a concatenation is found where the first one ends.
LEMMA LastSlice ==
  ASSUME NEW S, NEW s \in Seq(S), NEW t \in Seq(S)
  PROVE  SubSeq(s \o t, Len(s) + 1, Len(s) + Len(t)) = t
<1>0. s \o t \in Seq(S) /\ Len(s) \in Nat /\ Len(t) \in Nat
  BY ConcatProperties, LenProperties
<1>1. CASE t = <<>>
  BY <1>0, <1>1, SubSeqEmpty, EmptySeq
<1>2. CASE t # <<>>
  <2>1. Len(t) \in Nat \ {0}
    BY <1>2, EmptySeq
  <2>2. /\ Len(s) + 1 \in Len(s) + 1 .. Len(s) + Len(t)
        /\ Len(s) + Len(t) \in Len(s) + 1 .. Len(s) + Len(t)
    BY <1>0, <2>1
  <2>3. SubSeq(s \o t, Len(s) + 1, Len(s) + Len(t))
          = SubSeq(t, Len(s) + 1 - Len(s), Len(s) + Len(t) - Len(s))
    BY <2>2, SubSeqOfConcat2
  <2>4. SubSeq(t, 1, Len(t)) = t
    BY SubSeqFull
  <2> QED
    BY <1>0, <2>3, <2>4
<1> QED
  BY <1>1, <1>2

-----------------------------------------------------------------------------
(* The cipher. *)

\* The key is never empty and a part of it is a character.
LEMMA KeyFacts ==
  ASSUME IdentityTypeOK, NEW i \in Nat \ {0}
  PROVE  KeyByte(i) \in Characters
<1>1. TextKey \in Seq(Characters) /\ TextKey # <<>>
  BY DEF TextKey, Characters
<1>2. Key \in Seq(Characters) /\ Key # <<>>
  <2>1. CASE build = "simulator"
    BY <1>1, <2>1 DEF Key
  <2>2. CASE build # "simulator"
    <3>1. msuDeviceInfo \in StoredInfos \/ msuDeviceInfo = DeviceDefaults
      BY <2>2 DEF IdentityTypeOK, DeviceInfo
    <3> QED
      BY <1>1, <2>2, <3>1, StoredInfosAssumption DEF Key, DeviceDefaults
  <2> QED
    BY <2>1, <2>2
<1>3. Len(Key) \in Nat \ {0}
  BY <1>2, EmptySeq
<1>4. (i - 1) % Len(Key) \in 0 .. Len(Key) - 1
  BY <1>3
<1>5. ((i - 1) % Len(Key)) + 1 \in 1 .. Len(Key)
  BY <1>3, <1>4
<1> QED
  BY <1>2, <1>5, ElementOfSeq DEF KeyByte

\* The server sends bytes.
LEMMA ByteOfCharacters ==
  ASSUME NEW c \in Characters, NEW k \in Characters
  PROVE  (c + k) % 128 \in 0 .. 255
BY DEF Characters

\* A character comes back as it was, whatever the byte of the key.
LEMMA ByteComesBack ==
  ASSUME NEW c \in Characters, NEW k \in Characters
  PROVE  DecryptByte((c + k) % 128, k) = c
BY DEF DecryptByte, Characters

\* What is decrypted to zero is the byte of the key itself.
LEMMA ZeroIsTheKey ==
  ASSUME NEW c \in 0 .. 255, NEW k \in Characters
  PROVE  DecryptByte(c, k) = 0 <=> c = (0 + k) % 128
BY DEF DecryptByte, Characters

\* An encrypted text is as long as the text, and a sequence of bytes.
LEMMA EncryptType ==
  ASSUME IdentityTypeOK, NEW text \in Seq(Characters)
  PROVE  /\ Encrypt(text) \in Seq(0 .. 255)
         /\ DOMAIN Encrypt(text) = DOMAIN text
         /\ Len(Encrypt(text)) = Len(text)
<1>1. Len(text) \in Nat /\ DOMAIN text = 1 .. Len(text)
  BY LenProperties
<1>2. \A i \in 1 .. Len(text) : (text[i] + KeyByte(i)) % 128 \in 0 .. 255
  <2> SUFFICES ASSUME NEW i \in 1 .. Len(text)
               PROVE  (text[i] + KeyByte(i)) % 128 \in 0 .. 255
    OBVIOUS
  <2>1. text[i] \in Characters /\ KeyByte(i) \in Characters
    BY <1>1, KeyFacts, ElementOfSeq
  <2> QED
    BY <2>1, ByteOfCharacters
<1>3. Encrypt(text) \in [1 .. Len(text) -> 0 .. 255]
  BY <1>1, <1>2 DEF Encrypt
<1>4. Seq(0 .. 255) = UNION {[1 .. n -> 0 .. 255] : n \in Nat}
  BY SeqDef
<1>5. Encrypt(text) \in Seq(0 .. 255)
  BY <1>1, <1>3, <1>4
<1> QED
  BY <1>1, <1>3, <1>5, LenProperties

\* msuDecryption undoes what the server did to a text.
LEMMA TextComesBack ==
  ASSUME IdentityTypeOK, NEW text \in Seq(Characters)
  PROVE  Decrypt(Encrypt(text)) = text
<1>1. Len(text) \in Nat /\ DOMAIN text = 1 .. Len(text) /\ text \in [1 .. Len(text) -> Characters]
  BY LenProperties
<1>2. \A i \in 1 .. Len(text) : DecryptByte(Encrypt(text)[i], KeyByte(i)) = text[i]
  <2> SUFFICES ASSUME NEW i \in 1 .. Len(text)
               PROVE  DecryptByte(Encrypt(text)[i], KeyByte(i)) = text[i]
    OBVIOUS
  <2>1. text[i] \in Characters /\ KeyByte(i) \in Characters
    BY <1>1, KeyFacts
  <2>2. Encrypt(text)[i] = (text[i] + KeyByte(i)) % 128
    BY <1>1 DEF Encrypt
  <2> QED
    BY <2>1, <2>2, ByteComesBack
<1> QED
  BY <1>1, <1>2, EncryptType DEF Decrypt

-----------------------------------------------------------------------------
(* The fields of an authentication request. *)

\* A text is a sequence of bytes.
LEMMA TextIsBytes ==
  ASSUME NEW text \in Seq(Characters)
  PROVE  text \in Seq(0 .. 255)
<1>1. Len(text) \in Nat /\ text \in [1 .. Len(text) -> Characters]
  BY LenProperties
<1>2. \A c \in Characters : c \in 0 .. 255
  BY DEF Characters
<1>3. text \in [1 .. Len(text) -> 0 .. 255]
  BY <1>1, <1>2
<1>4. Seq(0 .. 255) = UNION {[1 .. n -> 0 .. 255] : n \in Nat}
  BY SeqDef
<1> QED
  BY <1>1, <1>3, <1>4

\* Every field goes out as a sequence of bytes.
LEMMA SentType ==
  ASSUME IdentityTypeOK, NEW req \in Requests, NEW t \in AuthTags
  PROVE  Sent(req, t) \in Seq(0 .. 255)
<1>1. req.text[t] \in Seq(Characters)
  BY RequestsAssumption
<1>2. req.text[t] \in Seq(0 .. 255)
  BY <1>1, TextIsBytes
<1>3. Encrypt(req.text[t]) \in Seq(0 .. 255) /\ <<>> \in Seq(0 .. 255)
  BY <1>1, EncryptType, EmptySeq
<1> QED
  BY <1>2, <1>3 DEF Sent

\* msuAuthenticationRequest finds each field it compares where the server put it,
\* whatever the fields before and after it.
LEMMA FieldIsFound ==
  ASSUME IdentityTypeOK, NEW req \in Requests,
         NEW t \in {"filename", "hardwareId", "password", "username"}
  PROVE  SubSeq(Payload(req), Begin(req, t) + 1, Begin(req, t) + Len(Sent(req, t)))
           = Sent(req, t)
<1> DEFINE B     == 0 .. 255
           F(u)  == Sent(req, u)
           L(u)  == Len(F(u))
           P2    == F("filename") \o F("hardwareId")
           P3    == P2 \o F("productId")
           P4    == P3 \o F("modelname")
           P5    == P4 \o F("password")
           P6    == P5 \o F("username")
           P7    == P6 \o F("firmwareversion")
           P8    == P7 \o F("softwareversion")
           P9    == P8 \o F("vendorId")
           P10   == P9 \o F("productname")
<1>1. \A u \in AuthTags : F(u) \in Seq(B) /\ L(u) \in Nat
  BY SentType, LenProperties
<1>2. Payload(req) = P10
  BY DEF Payload
<1>3. /\ F("filename") \in Seq(B) /\ F("hardwareId") \in Seq(B)
      /\ F("productId") \in Seq(B) /\ F("modelname") \in Seq(B)
      /\ F("password") \in Seq(B) /\ F("username") \in Seq(B)
      /\ F("firmwareversion") \in Seq(B) /\ F("softwareversion") \in Seq(B)
      /\ F("vendorId") \in Seq(B) /\ F("productname") \in Seq(B)
      /\ L("filename") \in Nat /\ L("hardwareId") \in Nat /\ L("productId") \in Nat
      /\ L("modelname") \in Nat /\ L("password") \in Nat /\ L("username") \in Nat
  BY <1>1 DEF AuthTags
<1> HIDE DEF B, F
<1>4. P2 \in Seq(B) /\ Len(P2) = L("filename") + L("hardwareId")
  BY <1>3, ConcatProperties
<1>5. P3 \in Seq(B) /\ Len(P3) = Len(P2) + L("productId")
  BY <1>3, <1>4, ConcatProperties
<1>6. P4 \in Seq(B) /\ Len(P4) = Len(P3) + L("modelname")
  BY <1>3, <1>5, ConcatProperties
<1>7. P5 \in Seq(B) /\ Len(P5) = Len(P4) + L("password")
  BY <1>3, <1>6, ConcatProperties
<1>8. P6 \in Seq(B) /\ Len(P6) = Len(P5) + L("username")
  BY <1>3, <1>7, ConcatProperties
<1>9. P7 \in Seq(B) /\ P8 \in Seq(B) /\ P9 \in Seq(B)
      /\ Len(P7) = Len(P6) + Len(F("firmwareversion"))
      /\ Len(P8) = Len(P7) + Len(F("softwareversion"))
      /\ Len(P9) = Len(P8) + Len(F("vendorId"))
  <2>1. P7 \in Seq(B) /\ Len(P7) = Len(P6) + Len(F("firmwareversion"))
    BY <1>3, <1>8, ConcatProperties
  <2>2. P8 \in Seq(B) /\ Len(P8) = Len(P7) + Len(F("softwareversion"))
    BY <1>3, <2>1, ConcatProperties
  <2>3. P9 \in Seq(B) /\ Len(P9) = Len(P8) + Len(F("vendorId"))
    BY <1>3, <2>2, ConcatProperties
  <2> QED
    BY <2>1, <2>2, <2>3
<1> HIDE DEF P2, P3, P4, P5, P6, P7, P8, P9, P10
<1>10. /\ Len(P2) \in Nat /\ Len(P3) \in Nat /\ Len(P4) \in Nat
       /\ Len(P5) \in Nat /\ Len(P6) \in Nat
  BY <1>4, <1>5, <1>6, <1>7, <1>8, LenProperties
<1>11. Len(P2) <= Len(P3) /\ Len(P3) <= Len(P4) /\ Len(P4) <= Len(P5) /\ Len(P5) <= Len(P6)
  <2>1. Len(P2) <= Len(P3)
    BY <1>3, <1>5, <1>10
  <2>2. Len(P3) <= Len(P4)
    BY <1>3, <1>6, <1>10
  <2>3. Len(P4) <= Len(P5)
    BY <1>3, <1>7, <1>10
  <2>4. Len(P5) <= Len(P6)
    BY <1>3, <1>8, <1>10
  <2> QED
    BY <2>1, <2>2, <2>3, <2>4
\* A slice of the credentials and what precedes them.
<1>12. ASSUME NEW m \in Nat \ {0}, NEW n \in Nat, m <= n + 1, n <= Len(P6)
       PROVE  SubSeq(Payload(req), m, n) = SubSeq(P6, m, n)
  <2>1. n <= Len(P7) /\ n <= Len(P8) /\ n <= Len(P9)
    BY <1>3, <1>8, <1>9, <1>12, LenProperties
  <2>2. SubSeq(P7, m, n) = SubSeq(P6, m, n)
    BY <1>3, <1>8, <1>12, SliceOfLonger, SMTT(40) DEF P7
  <2>3. SubSeq(P8, m, n) = SubSeq(P7, m, n)
    BY <1>3, <1>9, <1>12, <2>1, SliceOfLonger, SMTT(40) DEF P8
  <2>4. SubSeq(P9, m, n) = SubSeq(P8, m, n)
    BY <1>3, <1>9, <1>12, <2>1, SliceOfLonger, SMTT(40) DEF P9
  <2>5. SubSeq(P10, m, n) = SubSeq(P9, m, n)
    BY <1>3, <1>9, <1>12, <2>1, SliceOfLonger, SMTT(40) DEF P10
  <2> QED
    BY <1>2, <2>2, <2>3, <2>4, <2>5
\* A slice of what precedes the credentials.
<1>13. ASSUME NEW m \in Nat \ {0}, NEW n \in Nat, m <= n + 1, n <= Len(P2)
       PROVE  SubSeq(P6, m, n) = SubSeq(P2, m, n)
  <2>1. n <= Len(P3) /\ n <= Len(P4) /\ n <= Len(P5)
    BY <1>13, <1>10, <1>11
  <2>2. SubSeq(P3, m, n) = SubSeq(P2, m, n)
    BY <1>3, <1>4, <1>13, SliceOfLonger, SMTT(40) DEF P3
  <2>3. SubSeq(P4, m, n) = SubSeq(P3, m, n)
    BY <1>3, <1>5, <1>13, <2>1, SliceOfLonger, SMTT(40) DEF P4
  <2>4. SubSeq(P5, m, n) = SubSeq(P4, m, n)
    BY <1>3, <1>6, <1>13, <2>1, SliceOfLonger, SMTT(40) DEF P5
  <2>5. SubSeq(P6, m, n) = SubSeq(P5, m, n)
    BY <1>3, <1>7, <1>13, <2>1, SliceOfLonger, SMTT(40) DEF P6
  <2> QED
    BY <2>2, <2>3, <2>4, <2>5
<1>14. CASE t = "filename"
  <2> DEFINE n == L("filename")
  <2>1. /\ n \in Nat /\ n <= Len(P2) /\ n <= Len(P6)
        /\ 1 \in Nat \ {0} /\ 1 <= n + 1
    <3>1. n \in Nat /\ n <= Len(P2)
      BY <1>3, <1>4
    <3> HIDE DEF n
    <3> QED
      BY <1>10, <1>11, <3>1
  <2>2. SubSeq(P2, 1, L("filename")) = SubSeq(F("filename"), 1, L("filename"))
    BY <1>3, SliceOfLonger, SMTT(40) DEF P2
  <2>3. SubSeq(F("filename"), 1, L("filename")) = F("filename")
    BY <1>3, SubSeqFull
  <2>4. SubSeq(Payload(req), 1, n) = SubSeq(P2, 1, n)
    <3> HIDE DEF n
    <3>1. SubSeq(Payload(req), 1, n) = SubSeq(P6, 1, n)
      BY <1>12, <2>1
    <3>2. SubSeq(P6, 1, n) = SubSeq(P2, 1, n)
      BY <1>13, <2>1
    <3> QED
      BY <3>1, <3>2
  <2> QED
    BY <1>3, <1>14, <2>2, <2>3, <2>4 DEF Begin, F
<1>15. CASE t = "hardwareId"
  <2>1. SubSeq(P2, L("filename") + 1, L("filename") + L("hardwareId")) = F("hardwareId")
    BY <1>3, LastSlice, SMTT(40) DEF P2
  <2> DEFINE m == L("filename") + 1
             n == L("filename") + L("hardwareId")
  <2>2. m \in Nat \ {0} /\ n \in Nat /\ m <= n + 1 /\ n <= Len(P2) /\ n <= Len(P6)
    <3>1. m \in Nat \ {0} /\ n \in Nat /\ m <= n + 1 /\ n <= Len(P2)
      BY <1>3, <1>4
    <3> HIDE DEF m, n
    <3> QED
      BY <1>10, <1>11, <3>1
  <2>3. SubSeq(Payload(req), m, n) = F("hardwareId")
    <3> HIDE DEF m, n
    <3>1. SubSeq(Payload(req), m, n) = SubSeq(P6, m, n)
      BY <1>12, <2>2
    <3>2. SubSeq(P6, m, n) = SubSeq(P2, m, n)
      BY <1>13, <2>2
    <3> QED
      BY <2>1, <3>1, <3>2 DEF m, n
  <2> QED
    BY <1>15, <2>3 DEF Begin, F
<1>16. CASE t = "password"
  <2>1. SubSeq(P5, Len(P4) + 1, Len(P4) + L("password")) = F("password")
    BY <1>3, <1>6, LastSlice, SMTT(40) DEF P5
  <2> DEFINE m == Len(P4) + 1
             n == Len(P4) + L("password")
  <2>2. /\ Len(P4) \in Nat /\ m \in Nat \ {0} /\ n \in Nat /\ m <= n + 1
        /\ n <= Len(P4) + L("password") /\ n <= Len(P6)
    <3>1. Len(P4) + L("password") <= Len(P6)
      BY <1>3, <1>7, <1>8, <1>10
    <3> QED
      BY <1>3, <1>10, <3>1
  <2>3. SubSeq(P6, Len(P4) + 1, Len(P4) + L("password"))
          = SubSeq(P5, Len(P4) + 1, Len(P4) + L("password"))
    BY <1>3, <1>7, <2>2, SliceOfLonger, SMTT(40) DEF P6
  <2>4. SubSeq(Payload(req), m, n) = F("password")
    <3> HIDE DEF m, n
    <3>1. SubSeq(Payload(req), m, n) = SubSeq(P6, m, n)
      BY <1>12, <2>2
    <3> QED
      BY <2>1, <2>3, <3>1 DEF m, n
  <2>5. Begin(req, "password") = Len(P4)
    BY <1>4, <1>5, <1>6 DEF Begin, F
  <2> QED
    BY <1>16, <2>4, <2>5 DEF F
<1>17. CASE t = "username"
  <2>1. SubSeq(P6, Len(P5) + 1, Len(P5) + L("username")) = F("username")
    BY <1>3, <1>7, LastSlice, SMTT(40) DEF P6
  <2> DEFINE m == Len(P5) + 1
             n == Len(P5) + L("username")
  <2>2. /\ Len(P5) \in Nat /\ m \in Nat \ {0} /\ n \in Nat /\ m <= n + 1
        /\ n <= Len(P5) + L("username") /\ n <= Len(P6)
    <3>1. Len(P5) + L("username") <= Len(P6)
      BY <1>3, <1>7, <1>8, <1>10
    <3> QED
      BY <1>3, <1>10, <3>1
  <2>3. SubSeq(Payload(req), m, n) = F("username")
    <3> HIDE DEF m, n
    <3>1. SubSeq(Payload(req), m, n) = SubSeq(P6, m, n)
      BY <1>12, <2>2
    <3> QED
      BY <2>1, <3>1 DEF m, n
  <2>4. Begin(req, "username") = Len(P5)
    BY <1>4, <1>5, <1>6, <1>7 DEF Begin, F
  <2> QED
    BY <1>17, <2>3, <2>4 DEF F
<1> QED
  BY <1>14, <1>15, <1>16, <1>17

\* A text has no zero, and a C string of it is all of it.
LEMMA TextIsACString ==
  ASSUME NEW text \in Seq(Characters)
  PROVE  CString(text) = text
<1>1. DOMAIN text = 1 .. Len(text) /\ text \in [1 .. Len(text) -> Characters]
  BY LenProperties
<1>2. \A i \in DOMAIN text : text[i] # 0
  <2>1. \A i \in 1 .. Len(text) : text[i] \in Characters
    BY <1>1
  <2>2. 0 \notin Characters
    BY DEF Characters
  <2> QED
    BY <1>1, <2>1, <2>2
<1> QED
  BY <1>2 DEF CString

\* The text of a field, as the server meant it.
Meant(req, t) == IF t \in req.present THEN req.text[t] ELSE <<>>

\* What msuAuthenticationRequest compares is what the server meant.
LEMMA ParsedIsMeant ==
  ASSUME IdentityTypeOK, NEW req \in Requests,
         NEW t \in {"filename", "hardwareId", "password", "username"}
  PROVE  Parsed(req, t) = Meant(req, t)
<1>1. req.text[t] \in Seq(Characters) /\ <<>> \in Seq(Characters)
  BY RequestsAssumption, EmptySeq DEF AuthTags
<1>2. Meant(req, t) \in Seq(Characters)
  BY <1>1 DEF Meant
<1>3. Parsed(req, t) = CString(IF Encrypted(t) THEN Decrypt(Sent(req, t)) ELSE Sent(req, t))
  BY FieldIsFound DEF Parsed
<1>4. (IF Encrypted(t) THEN Decrypt(Sent(req, t)) ELSE Sent(req, t)) = Meant(req, t)
  <2>1. CASE t \in req.present /\ Encrypted(t)
    BY <1>1, <2>1, TextComesBack DEF Sent, Meant
  <2>2. CASE t \notin req.present
    <3>1. Decrypt(<<>>) = <<>>
      BY DEF Decrypt
    <3> QED
      BY <2>2, <3>1 DEF Sent, Meant
  <2>3. CASE t \in req.present /\ ~Encrypted(t)
    BY <2>3 DEF Sent, Meant
  <2> QED
    BY <2>1, <2>2, <2>3
<1> QED
  BY <1>2, <1>3, <1>4, TextIsACString

-----------------------------------------------------------------------------
(* The tests of a request. *)

\* The first test that fails decides, and without one there is no subcode.
LEMMA VerdictFacts ==
  ASSUME NEW T, Len(T) \in Nat
  PROVE  /\ (\A i \in 1 .. Len(T) : T[i][1]) => Verdict(T) = 0
         /\ (\E i \in 1 .. Len(T) : ~T[i][1])
              => \E i \in 1 .. Len(T) : ~T[i][1] /\ Verdict(T) = T[i][2]
<1> DEFINE I == {i \in 1 .. Len(T) : ~T[i][1]}
<1>1. CASE I = {}
  <2>1. SelectInSeq(T, LAMBDA t : ~t[1]) = 0
    BY <1>1 DEF SelectInSeq
  <2> QED
    BY <1>1, <2>1 DEF Verdict
<1>2. CASE I # {}
  <2>1. SelectInSeq(T, LAMBDA t : ~t[1]) = Min(I)
    BY <1>2 DEF SelectInSeq
  <2>2. \E n \in I : \A m \in I : n <= m
    <3>1. I \in SUBSET Nat
      OBVIOUS
    <3> HIDE DEF I
    <3> QED
      BY <1>2, <3>1, LeastNumber
  <2>3. Min(I) \in I
    BY <2>2 DEF Min
  <2>4. Min(I) # 0
    BY <2>3
  <2>5. Verdict(T) = T[Min(I)][2]
    BY <2>1, <2>4 DEF Verdict
  <2> QED
    BY <1>2, <2>3, <2>5
<1> QED
  BY <1>1, <1>2

\* The transaction is zero after the decryption if it was sent as zero.
LEMMA TransactionIsChecked ==
  ASSUME IdentityTypeOK, NEW req \in Requests
  PROVE  (\E i \in 1 .. 4 : Decrypt(req.transaction)[i] # 0)
           <=> req.transaction # Encrypt(<<0, 0, 0, 0>>)
<1> DEFINE tr   == req.transaction
           Z    == Encrypt(<<0, 0, 0, 0>>)
<1>1. tr \in [1 .. 4 -> 0 .. 255]
  BY RequestsAssumption
<1>2. \A i \in 1 .. 4 : Decrypt(tr)[i] = 0 <=> tr[i] = (0 + KeyByte(i)) % 128
  <2> SUFFICES ASSUME NEW i \in 1 .. 4
               PROVE  Decrypt(tr)[i] = 0 <=> tr[i] = (0 + KeyByte(i)) % 128
    OBVIOUS
  <2>1. tr[i] \in 0 .. 255 /\ KeyByte(i) \in Characters
    BY <1>1, KeyFacts
  <2>2. Decrypt(tr)[i] = DecryptByte(tr[i], KeyByte(i))
    BY <1>1 DEF Decrypt
  <2> QED
    BY <2>1, <2>2, ZeroIsTheKey
<1>3. Z = [i \in 1 .. 4 |-> (0 + KeyByte(i)) % 128]
  <2>1. DOMAIN <<0, 0, 0, 0>> = 1 .. 4 /\ \A i \in 1 .. 4 : <<0, 0, 0, 0>>[i] = 0
    OBVIOUS
  <2> QED
    BY <2>1 DEF Encrypt
<1>4. tr = Z <=> \A i \in 1 .. 4 : tr[i] = (0 + KeyByte(i)) % 128
  BY <1>1, <1>3
<1> QED
  BY <1>2, <1>4

\* The hardware id passes if the request has it as it is, or an empty one.
LEMMA HardwareIsChecked ==
  ASSUME IdentityTypeOK, NEW req \in Requests
  PROVE  HardwareMatches(req)
           <=> \/ deviceidentification["hardwareId"] = 0
               \/ "hardwareId" \notin req.present
               \/ req.text["hardwareId"] \in {<<>>, Hardware}
<1> DEFINE h == req.text["hardwareId"]
<1>1. h \in Seq(Characters)
  BY RequestsAssumption DEF AuthTags
<1>2. "hardwareId" \in req.present => Parsed(req, "hardwareId") = h
  BY ParsedIsMeant DEF Meant
<1> HIDE DEF h
<1>3. IsPrefix(h, Hardware) <=> h \in {<<>>, Hardware}
  <2>1. Hardware \in Seq(Characters) /\ Len(Hardware) = 1
    BY DEF Hardware, Characters
  <2>2. CASE h = <<>>
    <3>1. SubSeq(h, 1, 0) = <<>> /\ SubSeq(Hardware, 1, 0) = <<>> /\ Len(h) = 0
      BY <2>1, <2>2, <1>1, SubSeqEmpty, EmptySeq
    <3> QED
      BY <2>1, <2>2, <3>1 DEF IsPrefix
  <2>3. CASE h # <<>>
    <3>1. Len(h) \in Nat \ {0}
      BY <1>1, <2>3, EmptySeq
    <3>2. SubSeq(h, 1, Len(h)) = h /\ SubSeq(Hardware, 1, Len(Hardware)) = Hardware
      BY <1>1, <2>1, SubSeqFull
    <3>3. CASE Len(h) = 1
      BY <2>1, <2>3, <3>2, <3>3 DEF IsPrefix
    <3>4. CASE Len(h) # 1
      <4>1. h # Hardware
        BY <2>1, <3>4
      <4>2. ~(Len(h) <= 1)
        <5>1. \A n \in Nat \ {0} : n # 1 => ~(n <= 1)
          OBVIOUS
        <5> QED
          BY <3>1, <3>4, <5>1
      <4>3. ~IsPrefix(h, Hardware)
        BY <2>1, <4>2 DEF IsPrefix
      <4> QED
        BY <2>3, <4>1, <4>3
    <3> QED
      BY <3>3, <3>4
  <2> QED
    BY <2>2, <2>3
<1> QED
  BY <1>2, <1>3 DEF HardwareMatches, h

\* The login and the file are tested as the server meant them.
LEMMA CredentialsAreChecked ==
  ASSUME IdentityTypeOK, NEW req \in Requests
  PROVE  /\ LoginFits(req) <=> /\ Parsed(req, "username") = msuDeviceInfo.user
                               /\ Parsed(req, "password") = msuDeviceInfo.password
         /\ FileFits(req) <=> /\ "filename" \in req.present
                              /\ Parsed(req, "filename") \in Listed
<1>1. /\ Parsed(req, "username") = Meant(req, "username")
      /\ Parsed(req, "password") = Meant(req, "password")
      /\ Parsed(req, "filename") = Meant(req, "filename")
  BY ParsedIsMeant
<1> QED
  BY <1>1 DEF LoginFits, FileFits, Meant

\* The core accepts a complete request that has nothing wrong, and otherwise
\* answers a subcode of what is.
LEMMA DeviceVerdict ==
  ASSUME IdentityTypeOK, NEW req \in Requests
  PROVE  LET v == Verdict(DeviceTests(req))
             known == req.serverIP = req.from /\ req.from \in KnownServers
             zero  == req.transaction = Encrypt(<<0, 0, 0, 0>>)
         IN  /\ v = 0 => /\ req.level = msuDeviceInfo.level
                         /\ known /\ ~zero
                         /\ LoginFits(req) /\ FileFits(req) /\ HardwareMatches(req)
             /\ v # 0 => \/ v = 1 /\ req.level # msuDeviceInfo.level
                         \/ v = 2 /\ ~known
                         \/ v = 3 /\ ~LoginFits(req)
                         \/ v = 4 /\ ~FileFits(req)
                         \/ v = 5 /\ ~HardwareMatches(req)
                         \/ v = 6 /\ zero
<1> DEFINE T == DeviceTests(req)
           v == Verdict(T)
<1>1. Len(T) = 7
  BY DEF DeviceTests
<1>2. /\ T[1][1] <=> req.level = msuDeviceInfo.level
      /\ T[2][1] <=> \E i \in 1 .. 4 : Decrypt(req.transaction)[i] # 0
      /\ T[3][1] <=> req.serverIP = req.from /\ req.serverIP \in KnownServers
      /\ T[4][1] <=> Parsed(req, "username") = msuDeviceInfo.user
      /\ T[5][1] <=> Parsed(req, "password") = msuDeviceInfo.password
      /\ T[6][1] <=> "filename" \in req.present /\ Parsed(req, "filename") \in Listed
      /\ T[7][1] <=> HardwareMatches(req)
  BY DEF DeviceTests
<1>3. /\ T[1][2] = 1 /\ T[2][2] = 6 /\ T[3][2] = 2 /\ T[4][2] = 3
      /\ T[5][2] = 3 /\ T[6][2] = 4 /\ T[7][2] = 5
  BY DEF DeviceTests
<1> HIDE DEF T
<1>4. (\A i \in 1 .. 7 : T[i][1]) =>
        /\ T[1][1] /\ T[2][1] /\ T[3][1] /\ T[4][1] /\ T[5][1] /\ T[6][1] /\ T[7][1]
  OBVIOUS
<1>5. CASE \A i \in 1 .. Len(T) : T[i][1]
  <2>1. v = 0
    BY <1>5, VerdictFacts, <1>1
  <2>2. /\ T[1][1] /\ T[2][1] /\ T[3][1] /\ T[4][1] /\ T[5][1] /\ T[6][1] /\ T[7][1]
    BY <1>1, <1>4, <1>5
  <2> QED
    BY <1>2, <2>1, <2>2, TransactionIsChecked, CredentialsAreChecked DEF T
<1>6. CASE \E i \in 1 .. Len(T) : ~T[i][1]
  <2>0. Len(T) \in Nat
    BY <1>1
  <2>1. PICK i \in 1 .. Len(T) : ~T[i][1] /\ v = T[i][2]
    BY <1>6, <2>0, VerdictFacts
  <2>2. i \in {1, 2, 3, 4, 5, 6, 7}
    BY <1>1
  <2> QED
    BY <1>2, <1>3, <2>1, <2>2, TransactionIsChecked, CredentialsAreChecked DEF T
<1> QED
  BY <1>5, <1>6

\* The simulator accepts a request of a known server only with the right login.
LEMMA SimVerdict ==
  ASSUME IdentityTypeOK, NEW req \in Requests, Verdict(SimTests(req)) = 0
  PROVE  LoginFits(req)
<1> DEFINE T == SimTests(req)
<1>1. Len(T) = 4
  BY DEF SimTests
<1>2. /\ T[1][1] <=> Parsed(req, "username") = msuDeviceInfo.user
      /\ T[2][1] <=> Parsed(req, "password") = msuDeviceInfo.password
  BY DEF SimTests
<1>3. T[1][2] = 3 /\ T[2][2] = 3 /\ T[3][2] = 4 /\ T[4][2] = 5
  BY DEF SimTests
<1>4. Verdict(T) = 0
  OBVIOUS
<1> HIDE DEF T
<1>5. \A i \in 1 .. Len(T) : T[i][1]
  <2>1. \A i \in {1, 2, 3, 4} : T[i][2] # 0
    BY <1>3
  <2>2. \A i \in 1 .. Len(T) : T[i][2] # 0
    BY <1>1, <2>1
  <2>3. Len(T) \in Nat
    BY <1>1
  <2> QED
    BY <1>4, <2>2, <2>3, VerdictFacts
<1> QED
  BY <1>1, <1>2, <1>5, CredentialsAreChecked

-----------------------------------------------------------------------------
(* Types, and the group. *)

\* The answer to an authentication request, and nothing else, is one.
LEMMA AnswerTypes ==
  ASSUME NEW req
  PROVE  /\ DeviceAnswer(req).type \in {"authResponse", "authRequest"}
         /\ SimAnswer(req).type \in {"authResponse", "authRequest"}
BY DEF DeviceAnswer, SimAnswer, Echo, EchoWithError, AuthResponse

\* The lengths of the identification are those of fields that fit a response.
LEMMA IdentificationTypes ==
  /\ DeviceIdentification \in [Range(IdTags) -> 0 .. 127]
  /\ ModbusIdentification \in [Range(IdTags) -> 0 .. 127]
  /\ SimIdentification \in [Range(IdTags) -> 0 .. 127]
<1> DEFINE D == [Range(IdTags) -> 0 .. 127]
<1>1. NoIdentification \in D
  BY DEF NoIdentification
<1>2. DeviceIdentification \in D
  <2> DEFINE f1 == [NoIdentification EXCEPT !.hardwareId = 1]
             f2 == [f1 EXCEPT !.productId = 12]
             f3 == [f2 EXCEPT !.productName = 19]
             f4 == [f3 EXCEPT !.vendorId = 9]
             f5 == [f4 EXCEPT !.firmwareVersion = 2]
             f6 == [f5 EXCEPT !.revision = 1]
             f7 == [f6 EXCEPT !.deviceLoc = 4]
  <2>0. DeviceIdentification = f7
    BY DEF DeviceIdentification
  <2>1. f1 \in D
    BY <1>1
  <2> HIDE DEF f1
  <2>2. f2 \in D
    BY <2>1
  <2> HIDE DEF f2
  <2>3. f3 \in D
    BY <2>2
  <2> HIDE DEF f3
  <2>4. f4 \in D
    BY <2>3
  <2> HIDE DEF f4
  <2>5. f5 \in D
    BY <2>4
  <2> HIDE DEF f5
  <2>6. f6 \in D
    BY <2>5
  <2> HIDE DEF f6
  <2>7. f7 \in D
    BY <2>6
  <2> HIDE DEF f7
  <2> QED
    BY <2>0, <2>7
<1>3. ModbusIdentification \in D
  <2> DEFINE f1 == [NoIdentification EXCEPT !.vendorId = 18]
             f2 == [f1 EXCEPT !.productName = 12]
             f3 == [f2 EXCEPT !.firmwareVersion = 2]
             f4 == [f3 EXCEPT !.revision = 1]
  <2>0. ModbusIdentification = f4
    BY DEF ModbusIdentification
  <2>1. f1 \in D
    BY <1>1
  <2> HIDE DEF f1
  <2>2. f2 \in D
    BY <2>1
  <2> HIDE DEF f2
  <2>3. f3 \in D
    BY <2>2
  <2> HIDE DEF f3
  <2>4. f4 \in D
    BY <2>3
  <2> HIDE DEF f4
  <2> QED
    BY <2>0, <2>4
<1>4. SimIdentification \in D
  BY <1>1 DEF SimIdentification
<1> QED
  BY <1>2, <1>3, <1>4

\* IdentityTypeOK is an invariant for every number of groups, every set of
\* requests and every information in msu.bin.
THEOREM IdentityTypes == Spec => []IdentityTypeOK
<1>1. Init => IdentityTypeOK
  <2> SUFFICES ASSUME Init
               PROVE  IdentityTypeOK
    OBVIOUS
  <2>1. NoIdentification \in [Range(IdTags) -> 0 .. 127]
    BY DEF NoIdentification
  <2>2. build \in Builds /\ littleEndian \in BOOLEAN
    BY DEF Init
  <2>3. DeviceInfo(msuDeviceInfo)
    BY DEF Init
  <2>4. reported \in GroupIds \cup {NoGroup} /\ untold \in BOOLEAN
    BY DEF Init
  <2>7. gGroupID \in GroupIds
    BY MaxGroupAssumption DEF Init, GroupIds
  <2>5. reply.type = "none"
    BY DEF Init, Nothing
  <2>6. deviceidentification \in [Range(IdTags) -> 0 .. 127]
    BY <2>1 DEF Init
  <2> QED
    BY <2>2, <2>3, <2>4, <2>5, <2>6, <2>7 DEF IdentityTypeOK
<1>2. IdentityTypeOK /\ [Next]_vars => IdentityTypeOK'
  <2> SUFFICES ASSUME IdentityTypeOK, [Next]_vars
               PROVE  IdentityTypeOK'
    OBVIOUS
  <2> USE DEF IdentityTypeOK
  <2>1. ASSUME NEW low \in Addresses, NEW high \in Addresses, NEW complete \in BOOLEAN,
               Discovery(low, high, complete)
        PROVE  IdentityTypeOK'
    <3>1. BasicIdentification[build] \in [Range(IdTags) -> 0 .. 127]
      BY IdentificationTypes DEF BasicIdentification, Builds
    <3>2. DiscoveryResponse.type = "discovery" /\ DiscoveryResponse.group = gGroupID
      BY DEF DiscoveryResponse
    <3> QED
      BY <2>1, <3>1, <3>2 DEF Discovery, TellsGroup, buildVars, DeviceInfo
  <2>2. ASSUME NEW m \in GroupMessages, GroupMessage(m)
        PROVE  IdentityTypeOK'
    <3>0. m.complete => m.group \in GroupIds
      <4>1. CASE m \in [subcode : {"set", "reset", "ack"}, group : GroupIds, complete : {TRUE}]
        BY <4>1
      <4>2. CASE m = [subcode |-> "set", group |-> NoGroup, complete |-> FALSE]
        BY <4>2
      <4> QED
        BY <4>1, <4>2 DEF GroupMessages
    <3>1. gGroupID' \in GroupIds
      <4>1. GroupAfter(m) \in {m.group, 0, gGroupID}
        BY DEF GroupAfter
      <4>2. GroupAfter(m) = m.group => m.complete \/ GroupAfter(m) \in {0, gGroupID}
        BY DEF GroupAfter
      <4>3. 0 \in GroupIds
        BY MaxGroupAssumption DEF GroupIds
      <4> QED
        BY <2>2, <3>0, <4>1, <4>2, <4>3 DEF GroupMessage
    <3>2. GroupAck(m).type = "groupAck" /\ GroupAck(m).group = gGroupID'
      BY DEF GroupAck
    <3> QED
      BY <2>2, <3>1, <3>2 DEF GroupMessage, TellsGroup, buildVars, DeviceInfo
  <2>3. ASSUME NEW req \in Requests, Authentication(req)
        PROVE  IdentityTypeOK'
    BY <2>3, AnswerTypes DEF Authentication, buildVars, DeviceInfo
  <2>4. CASE UNCHANGED vars
    BY <2>4 DEF vars, DeviceInfo
  <2> QED
    BY <2>1, <2>2, <2>3, <2>4 DEF Next, DiscoveryOfOthers
<1> QED
  BY <1>1, <1>2, PTL DEF Spec

\* The group the server was told last is the group of the client, unless an
\* acknowledgement of msuHandleDeviceGroupMsg was not sent.
THEOREM GroupAsReported == Spec => []GroupIsAsReported
<1>1. Init => GroupIsAsReported
  BY DEF Init, GroupIsAsReported
<1>2. GroupIsAsReported /\ [Next]_vars => GroupIsAsReported'
  <2> SUFFICES ASSUME GroupIsAsReported, [Next]_vars
               PROVE  GroupIsAsReported'
    OBVIOUS
  <2> USE DEF GroupIsAsReported
  <2>1. ASSUME NEW low \in Addresses, NEW high \in Addresses, NEW complete \in BOOLEAN,
               Discovery(low, high, complete)
        PROVE  GroupIsAsReported'
    <3>1. DiscoveryResponse.group = gGroupID
      BY DEF DiscoveryResponse
    <3> QED
      BY <2>1, <3>1 DEF Discovery, TellsGroup
  <2>2. ASSUME NEW m \in GroupMessages, GroupMessage(m)
        PROVE  GroupIsAsReported'
    <3>1. CASE GroupIsAcknowledged(m)
      <4>1. GroupAck(m).group = gGroupID'
        BY DEF GroupAck
      <4> QED
        BY <2>2, <3>1, <4>1 DEF GroupMessage, TellsGroup
    <3>2. CASE ~GroupIsAcknowledged(m)
      BY <2>2, <3>2 DEF GroupMessage, GroupIsAcknowledged, GroupAfter
    <3> QED
      BY <3>1, <3>2
  <2>3. ASSUME NEW req \in Requests, Authentication(req)
        PROVE  GroupIsAsReported'
    BY <2>3 DEF Authentication
  <2>4. CASE UNCHANGED vars
    BY <2>4 DEF vars
  <2> QED
    BY <2>1, <2>2, <2>3, <2>4 DEF Next, DiscoveryOfOthers
<1> QED
  BY <1>1, <1>2, PTL DEF Spec

-----------------------------------------------------------------------------
(* The answers. *)

\* A new answer is the one to a request of the server, and the information it was
\* judged by stays.
LEMMA NewAnswer ==
  ASSUME IdentityTypeOK, [Next]_vars, reply'.type = "authResponse"
  PROVE  /\ UNCHANGED buildVars
         /\ \/ UNCHANGED reply
            \/ \E req \in Requests :
                 reply' = IF build = "simulator" THEN SimAnswer(req) ELSE DeviceAnswer(req)
<1>1. ASSUME NEW low \in Addresses, NEW high \in Addresses, NEW complete \in BOOLEAN,
             Discovery(low, high, complete)
      PROVE  UNCHANGED <<buildVars, reply>>
  <2>1. DiscoveryResponse.type = "discovery"
    BY DEF DiscoveryResponse
  <2> QED
    BY <1>1, <2>1 DEF Discovery, TellsGroup, buildVars
<1>2. ASSUME NEW m \in GroupMessages, GroupMessage(m)
      PROVE  UNCHANGED <<buildVars, reply>>
  <2>1. GroupAck(m).type = "groupAck"
    BY DEF GroupAck
  <2> QED
    BY <1>2, <2>1 DEF GroupMessage, TellsGroup, buildVars
<1>3. ASSUME NEW req \in Requests, Authentication(req)
      PROVE  /\ UNCHANGED buildVars
             /\ \/ UNCHANGED reply
                \/ reply' = IF build = "simulator" THEN SimAnswer(req) ELSE DeviceAnswer(req)
  BY <1>3 DEF Authentication, buildVars
<1>4. CASE UNCHANGED vars
  BY <1>4 DEF vars, buildVars
<1> QED
  BY <1>1, <1>2, <1>3, <1>4 DEF Next, DiscoveryOfOthers

\* Whatever fields precede the credentials in the payload, whatever they are and
\* whatever the key: msuAuthenticationRequest of the core accepts a request if
\* nothing in it is wrong, and otherwise names something that is.
THEOREM DeviceAnswersFit == Spec => []AnswersFit
<1>1. Init => AnswersFit
  BY DEF Init, AnswersFit, Nothing
<1>2. IdentityTypeOK /\ AnswersFit /\ [Next]_vars => AnswersFit'
  <2> SUFFICES ASSUME IdentityTypeOK, AnswersFit, [Next]_vars,
                      reply'.type = "authResponse", build' # "simulator"
               PROVE  AnswersFit'
    BY DEF AnswersFit
  <2>1. UNCHANGED <<build, littleEndian, msuDeviceInfo>>
    BY NewAnswer DEF buildVars
  <2>2. CASE UNCHANGED reply
    BY <2>1, <2>2 DEF AnswersFit, Misfit, LoginFits, FileFits, Listed, KnownServers, Encrypt, KeyByte, Key
  <2>3. ASSUME NEW req \in Requests, reply' = DeviceAnswer(req)
        PROVE  AnswersFit'
    <3> DEFINE v == Verdict(DeviceTests(req))
    <3>1. reply' = AuthResponse(req, v)
      BY <2>3 DEF DeviceAnswer, Echo
    <3>2. /\ reply'.request = req /\ reply'.sub = v
          /\ reply'.err = 0 <=> v = 0
          /\ reply'.checked <=> deviceidentification["hardwareId"] # 0
      <4> HIDE DEF v
      <4>1. reply'.request = req /\ reply'.sub = v /\ reply'.err = IF v = 0 THEN 0 ELSE 1
        BY <3>1 DEF AuthResponse
      <4>2. reply'.checked = (deviceidentification["hardwareId"] # 0)
        BY <3>1, Zenon DEF AuthResponse
      <4>3. reply'.err = 0 <=> v = 0
        BY <4>1
      <4> QED
        BY <4>1, <4>2, <4>3
    <3>3. HardwareMatches(req)
            <=> \/ ~reply'.checked
                \/ "hardwareId" \notin req.present
                \/ req.text["hardwareId"] \in {<<>>, Hardware}
      BY <3>2, HardwareIsChecked
    <3>4. /\ LoginFits(req)' <=> LoginFits(req)
          /\ FileFits(req)' <=> FileFits(req)
          /\ Encrypt(<<0, 0, 0, 0>>)' = Encrypt(<<0, 0, 0, 0>>)
          /\ KnownServers' = KnownServers
      BY <2>1 DEF LoginFits, FileFits, Listed, KnownServers, Encrypt, KeyByte, Key
    <3>5. CASE v = 0
      <4> SUFFICES ASSUME NEW sub \in 1 .. 6
                   PROVE  ~Misfit(req, sub)'
        BY <2>1, <3>2, <3>5 DEF AnswersFit
      <4>1. sub \in {1, 2, 3, 4, 5, 6}
        OBVIOUS
      <4> QED
        BY <2>1, <3>2, <3>3, <3>4, <3>5, <4>1, DeviceVerdict DEF Misfit
    <3>6. CASE v # 0
      <4>1. PICK w : w = v
        OBVIOUS
      <4>2. Misfit(req, w)'
        <5>1. \/ w = 1 /\ req.level # msuDeviceInfo.level
              \/ w = 2 /\ ~(req.serverIP = req.from /\ req.from \in KnownServers)
              \/ w = 3 /\ ~LoginFits(req)
              \/ w = 4 /\ ~FileFits(req)
              \/ w = 5 /\ ~HardwareMatches(req)
              \/ w = 6 /\ req.transaction = Encrypt(<<0, 0, 0, 0>>)
          BY <3>6, <4>1, DeviceVerdict
        <5> HIDE DEF v
        <5>2. CASE w = 1
          BY <2>1, <5>1, <5>2 DEF Misfit
        <5>3. CASE w = 2
          BY <3>4, <5>1, <5>3 DEF Misfit
        <5>4. CASE w = 3
          BY <3>4, <5>1, <5>4 DEF Misfit
        <5>5. CASE w = 4
          BY <3>4, <5>1, <5>5 DEF Misfit
        <5>6. CASE w = 5
          BY <3>3, <5>1, <5>6 DEF Misfit
        <5>7. CASE w = 6
          BY <3>4, <5>1, <5>7 DEF Misfit
        <5> QED
          BY <5>1, <5>2, <5>3, <5>4, <5>5, <5>6, <5>7
      <4> HIDE DEF v
      <4> QED
        BY <3>2, <3>6, <4>1, <4>2 DEF AnswersFit
    <3> QED
      BY <3>5, <3>6
  <2> QED
    BY <2>1, <2>2, <2>3, NewAnswer
<1> QED
  BY <1>1, <1>2, IdentityTypes, PTL DEF Spec

\* The simulator accepts only what a known server sends with the right login.
THEOREM SimAcceptance == Spec => []SimAcceptsKnown
<1>1. Init => SimAcceptsKnown
  BY DEF Init, SimAcceptsKnown, Nothing
<1>2. IdentityTypeOK /\ SimAcceptsKnown /\ [Next]_vars => SimAcceptsKnown'
  <2> SUFFICES ASSUME IdentityTypeOK, SimAcceptsKnown, [Next]_vars,
                      reply'.type = "authResponse", build' = "simulator", reply'.err = 0
               PROVE  SimAcceptsKnown'
    BY DEF SimAcceptsKnown
  <2>1. UNCHANGED <<build, littleEndian, msuDeviceInfo>>
    BY NewAnswer DEF buildVars
  <2>2. CASE UNCHANGED reply
    BY <2>1, <2>2 DEF SimAcceptsKnown, LoginFits, SimKnows, SimServerIP, KnownServers
  <2>3. ASSUME NEW req \in Requests, reply' = SimAnswer(req)
        PROVE  SimAcceptsKnown'
    <3>1. SimKnows(req) /\ reply' = AuthResponse(req, Verdict(SimTests(req)))
      BY <2>3 DEF SimAnswer, Echo, EchoWithError
    <3>2. reply'.request = req /\ Verdict(SimTests(req)) = 0
      BY <3>1 DEF AuthResponse
    <3>3. LoginFits(req)
      BY <3>2, SimVerdict
    <3> QED
      BY <2>1, <3>1, <3>2, <3>3 DEF SimAcceptsKnown, LoginFits, SimKnows, SimServerIP, KnownServers
  <2> QED
    BY <2>1, <2>2, <2>3, NewAnswer
<1> QED
  BY <1>1, <1>2, IdentityTypes, PTL DEF Spec

-----------------------------------------------------------------------------
(* The discovery response. *)

Lengths == [Range(IdTags) -> Nat]

\* Payloads under construction.
PayloadBytes == (Range(IdTags) \cup {"zero"}) \X Nat

Payloads == [data : [1 .. 127 -> PayloadBytes], size : Nat]

LEMMA TagFacts ==
  /\ Len(IdTags) = 9
  /\ \A n \in 1 .. 9 : IdTags[n] \in Range(IdTags)
  BY DEF IdTags, Range

\* A loop over the fields.
LEMMA NineRounds ==
  ASSUME NEW V, NEW first, NEW round, NEW f, IsLoop(f, 9, V, first, round)
  PROVE  /\ f \in [0 .. 9 -> V]
         /\ f[0] = first
         /\ \A n \in 1 .. 9 : f[n - 1] \in V /\ f[n] = round[n][f[n - 1]]
<1>1. PICK N \in Nat : N = 9
  OBVIOUS
<1>2. IsLoop(f, N, V, first, round)
  BY <1>1
<1>3. /\ f \in [0 .. N -> V]
      /\ f[0] = first
      /\ \A n \in 1 .. N : f[n - 1] \in V /\ f[n] = round[n][f[n - 1]]
  BY ONLY <1>2, N \in Nat, LoopRounds
<1> QED
  BY <1>1, <1>3

\* The ends of the fields are the sums of their lengths, and they increase.
LEMMA EndsLoop ==
  ASSUME NEW id \in Lengths
  PROVE  /\ FieldEnds(id) \in [0 .. 9 -> Nat]
         /\ FieldEnds(id)[0] = 0
         /\ \A n \in 1 .. 9 :
              FieldEnds(id)[n] = FieldEnds(id)[n - 1] + id[IdTags[n]]
<1> DEFINE round == [n \in 1 .. 9 |-> [k \in Nat |-> k + id[IdTags[n]]]]
           IsEnd(f) == f = [n \in 0 .. 9 |->
                              IF n = 0 THEN 0 ELSE f[n - 1] + id[IdTags[n]]]
<1>1. \A n \in 1 .. 9 : id[IdTags[n]] \in Nat
  BY TagFacts DEF Lengths
<1>2. round \in [1 .. 9 -> [Nat -> Nat]]
  BY <1>1
<1>3. \A n \in 1 .. 9 : \A k \in Nat : round[n][k] = k + id[IdTags[n]]
  OBVIOUS
<1> HIDE DEF round
<1>4. PICK f : IsLoop(f, 9, Nat, 0, round)
  BY <1>2, LoopExists
<1>5. /\ f \in [0 .. 9 -> Nat]
      /\ f[0] = 0
      /\ \A n \in 1 .. 9 : f[n - 1] \in Nat /\ f[n] = round[n][f[n - 1]]
  BY <1>4, NineRounds
<1>6. IsEnd(f)
  <2>1. f = [n \in 0 .. 9 |-> f[n]]
    BY <1>5
  <2>2. \A n \in 0 .. 9 : f[n] = IF n = 0 THEN 0 ELSE f[n - 1] + id[IdTags[n]]
    BY <1>3, <1>5
  <2> QED
    BY <2>1, <2>2
<1>7. IsEnd(FieldEnds(id))
  <2>1. IsEnd(CHOOSE g : IsEnd(g))
    BY <1>6
  <2>2. FieldEnds(id) = CHOOSE g : IsEnd(g)
    BY TagFacts DEF FieldEnds
  <2> QED
    BY <2>1, <2>2
<1> DEFINE g == FieldEnds(id)
<1>8. g = [n \in 0 .. 9 |-> IF n = 0 THEN 0 ELSE g[n - 1] + id[IdTags[n]]]
  BY <1>7
<1> HIDE DEF g
<1>9. g[0] = 0 /\ \A n \in 1 .. 9 : g[n] = g[n - 1] + id[IdTags[n]]
  BY <1>8
<1>10. g \in [0 .. 9 -> Nat]
  <2> DEFINE S == {n \in 0 .. 9 : g[n] \in Nat}
  <2>1. 0 \in S
    BY <1>9
  <2>2. ASSUME NEW n \in 1 .. 9, n - 1 \in S
        PROVE  n \in S
    BY <1>1, <1>9, <2>2
  <2> HIDE DEF S
  <2>3. \A n \in 0 .. 9 : n \in S
    BY <2>1, <2>2, InductionUpTo
  <2>4. \A n \in 0 .. 9 : g[n] \in Nat
    BY <2>3 DEF S
  <2> QED
    BY <1>8, <2>4
<1> QED
  BY <1>9, <1>10 DEF g

LEMMA EndsIncrease ==
  ASSUME NEW id \in Lengths, NEW n \in 0 .. 9, NEW m \in 0 .. n
  PROVE  FieldEnds(id)[m] <= FieldEnds(id)[n]
<1> DEFINE g == FieldEnds(id)
           S == {k \in 0 .. 9 : m <= k => g[m] <= g[k]}
<1>1. \A k \in 1 .. 9 : id[IdTags[k]] \in Nat
  BY TagFacts DEF Lengths
<1>2. /\ g \in [0 .. 9 -> Nat]
      /\ \A k \in 1 .. 9 : g[k] = g[k - 1] + id[IdTags[k]]
  BY EndsLoop
<1> HIDE DEF g
<1>3. 0 \in S
  BY <1>2
<1>4. ASSUME NEW k \in 1 .. 9, k - 1 \in S
      PROVE  k \in S
  <2>1. g[k] >= g[k - 1] /\ g[k] \in Nat /\ g[k - 1] \in Nat /\ g[m] \in Nat
    BY <1>1, <1>2
  <2>2. m <= k - 1 => g[m] <= g[k - 1]
    BY <1>4
  <2> QED
    BY <2>1, <2>2
<1> HIDE DEF S
<1>5. \A k \in 0 .. 9 : k \in S
  BY <1>3, <1>4, InductionUpTo
<1>6. n \in S
  BY <1>5
<1> QED
  BY <1>6 DEF S, g

LEMMA PutType ==
  ASSUME NEW id \in Lengths, NEW r \in Payloads, NEW t \in Range(IdTags)
  PROVE  Put(id, r, t) \in Payloads
<1> DEFINE o == r.size % 256
           d == CopyTo(r.data, o, id, t)
<1>1. r.data \in [1 .. 127 -> PayloadBytes] /\ r.size \in Nat /\ id[t] \in Nat
  BY DEF Payloads, Lengths
<1>2. o \in Nat
  BY <1>1
<1>3. d = [i \in 1 .. 127 |->
             CASE i - o \in 1 .. Copied(id, t) ->
                    IF i - o <= id[t] THEN <<t, i - o>> ELSE Zero
               [] OTHER -> r.data[i]]
  BY <1>1 DEF CopyTo
<1> HIDE DEF o, d
<1>4. ASSUME NEW i \in 1 .. 127
      PROVE  d[i] \in PayloadBytes
  <2>1. Zero \in PayloadBytes /\ r.data[i] \in PayloadBytes
    BY <1>1 DEF Zero, PayloadBytes
  <2>2. CASE i - o \in 1 .. Copied(id, t)
    <3>1. i - o \in Nat
      BY <1>2, <2>2
    <3>2. <<t, i - o>> \in PayloadBytes
      BY <3>1 DEF PayloadBytes
    <3> QED
      BY <1>3, <2>1, <2>2, <3>2
  <2>3. CASE ~(i - o \in 1 .. Copied(id, t))
    BY <1>3, <2>1, <2>3
  <2> QED
    BY <2>2, <2>3
<1>5. d \in [1 .. 127 -> PayloadBytes]
  BY <1>3, <1>4
<1>6. id[t] # 0 => Put(id, r, t) = [data |-> d, size |-> r.size + id[t]]
  BY DEF Put, d, o
<1>7. id[t] # 0 => Put(id, r, t) \in Payloads
  BY <1>1, <1>5, <1>6 DEF Payloads
<1> QED
  BY <1>7 DEF Put

\* A field that has room, and of which enough is copied, is put behind the
\* fields before it and leaves them alone.
LEMMA PutFacts ==
  ASSUME NEW id \in Lengths, NEW r \in Payloads, NEW t \in Range(IdTags),
         r.size + id[t] <= 127, id[t] <= Copied(id, t)
  PROVE  /\ Put(id, r, t).size = r.size + id[t]
         /\ \A i \in 1 .. id[t] : Put(id, r, t).data[r.size + i] = <<t, i>>
         /\ \A j \in 1 .. r.size : Put(id, r, t).data[j] = r.data[j]
<1> DEFINE d == CopyTo(r.data, r.size, id, t)
           p == Put(id, r, t)
<1>1. r.data \in [1 .. 127 -> PayloadBytes] /\ r.size \in Nat /\ id[t] \in Nat
  BY DEF Payloads, Lengths
<1>2. r.size % 256 = r.size
  BY <1>1
<1>3. Copied(id, t) \in Nat
  BY DEF Copied, Lengths, IdTags, Range
<1>4. CASE id[t] = 0
  BY <1>1, <1>4 DEF Put
<1>5. CASE id[t] # 0
  <2>1. p = [data |-> d, size |-> r.size + id[t]]
    BY <1>2, <1>5 DEF Put
  <2>2. d = [i \in 1 .. 127 |->
               CASE i - r.size \in 1 .. Copied(id, t) ->
                      IF i - r.size <= id[t] THEN <<t, i - r.size>> ELSE Zero
                 [] OTHER -> r.data[i]]
    BY <1>1 DEF CopyTo
  <2> HIDE DEF d, p
  <2>3. ASSUME NEW i \in 1 .. id[t]
        PROVE  d[r.size + i] = <<t, i>>
    <3>1. /\ r.size + i \in 1 .. 127 /\ (r.size + i) - r.size = i
          /\ i \in 1 .. Copied(id, t) /\ i <= id[t]
      BY <1>1, <1>3
    <3> QED
      BY <2>2, <3>1
  <2>4. ASSUME NEW j \in 1 .. r.size
        PROVE  d[j] = r.data[j]
    <3>1. j \in 1 .. 127 /\ ~(j - r.size \in 1 .. Copied(id, t))
      BY <1>1, <1>3
    <3> QED
      BY <2>2, <3>1
  <2> QED
    BY <2>1, <2>3, <2>4 DEF p
<1> QED
  BY <1>4, <1>5

LEMMA ClearedType == Cleared \in Payloads /\ Cleared.size = 0
<1>1. Zero \in PayloadBytes
  BY DEF Zero, PayloadBytes
<1> QED
  BY <1>1 DEF Cleared, Payloads

\* The loops of the two bodies of msuDiscoveryResponseMsgCreate.
LEMMA DevicePayloadLoop ==
  ASSUME NEW id \in Lengths
  PROVE  \E f \in [0 .. 9 -> Payloads] :
           /\ DevicePayload(id) = f[9].data
           /\ f[0] = Cleared
           /\ \A n \in 1 .. 9 : f[n] = Put(id, f[n - 1], IdTags[n])
<1> DEFINE round == [n \in 1 .. 9 |-> [r \in Payloads |-> Put(id, r, IdTags[n])]]
           IsFilled(f) == f = [n \in 0 .. 9 |->
                                 IF n = 0 THEN Cleared ELSE Put(id, f[n - 1], IdTags[n])]
<1>1. \A n \in 1 .. 9 : \A r \in Payloads : Put(id, r, IdTags[n]) \in Payloads
  BY TagFacts, PutType
<1>2. round \in [1 .. 9 -> [Payloads -> Payloads]]
  BY <1>1
<1>3. \A n \in 1 .. 9 : \A r \in Payloads : round[n][r] = Put(id, r, IdTags[n])
  OBVIOUS
<1> HIDE DEF round
<1>4. PICK f : IsLoop(f, 9, Payloads, Cleared, round)
  BY <1>2, ClearedType, LoopExists
<1>5. /\ f \in [0 .. 9 -> Payloads]
      /\ f[0] = Cleared
      /\ \A n \in 1 .. 9 : f[n - 1] \in Payloads /\ f[n] = round[n][f[n - 1]]
  BY <1>4, NineRounds
<1>6. IsFilled(f)
  <2>1. f = [n \in 0 .. 9 |-> f[n]]
    BY <1>5
  <2>2. \A n \in 0 .. 9 :
          f[n] = IF n = 0 THEN Cleared ELSE Put(id, f[n - 1], IdTags[n])
    <3>1. f[0] = Cleared
      BY <1>5
    <3>2. ASSUME NEW n \in 1 .. 9
          PROVE  f[n] = Put(id, f[n - 1], IdTags[n])
      BY <1>3, <1>5
    <3> QED
      BY <3>1, <3>2
  <2> QED
    BY <2>1, <2>2
<1> DEFINE g == CHOOSE g : IsFilled(g)
<1>7. IsFilled(g)
  BY <1>6
<1>8. DevicePayload(id) = g[9].data
  BY TagFacts DEF DevicePayload
<1> HIDE DEF g
<1>9. /\ g[0] = Cleared
       /\ \A n \in 1 .. 9 : g[n] = Put(id, g[n - 1], IdTags[n])
  <2>1. \A n \in 0 .. 9 :
          g[n] = IF n = 0 THEN Cleared ELSE Put(id, g[n - 1], IdTags[n])
    BY <1>7
  <2>2. g[0] = Cleared
    BY <2>1
  <2>3. ASSUME NEW n \in 1 .. 9
        PROVE  g[n] = Put(id, g[n - 1], IdTags[n])
    <3>1. n \in 0 .. 9 /\ n # 0
      OBVIOUS
    <3>2. g[n] = Put(id, g[n - 1], IdTags[n])
      BY <2>1, <3>1
    <3> QED
      BY <3>2
  <2> QED
    BY <2>2, <2>3
<1>10. g \in [0 .. 9 -> Payloads]
  <2> DEFINE S == {n \in 0 .. 9 : g[n] \in Payloads}
  <2>1. 0 \in S
    BY <1>9, ClearedType
  <2>2. ASSUME NEW n \in 1 .. 9, n - 1 \in S
        PROVE  n \in S
    BY <1>1, <1>9, <2>2
  <2> HIDE DEF S
  <2>3. \A n \in 0 .. 9 : n \in S
    BY <2>1, <2>2, InductionUpTo
  <2>4. \A n \in 0 .. 9 : g[n] \in Payloads
    BY <2>3 DEF S
  <2> QED
    BY <1>7, <2>4
<1> QED
  BY <1>8, <1>9, <1>10

\* The simulator's is the same as long as it has no product id.
LEMMA SimPayloadLoop ==
  ASSUME NEW id \in Lengths, id["productId"] = 0
  PROVE  \E f \in [0 .. 9 -> Payloads] :
           /\ SimPayload(id) = f[9].data
           /\ f[0] = Cleared
           /\ \A n \in 1 .. 9 : f[n] = Put(id, f[n - 1], IdTags[n])
<1> DEFINE round == [n \in 1 .. 9 |-> [r \in Payloads |-> Put(id, r, IdTags[n])]]
           IsFilled(f) == f = [n \in 0 .. 9 |->
                                 IF n = 0 THEN Cleared ELSE SimPut(id, f[n - 1], IdTags[n])]
<1>1. \A n \in 1 .. 9 : \A r \in Payloads : Put(id, r, IdTags[n]) \in Payloads
  BY TagFacts, PutType
<1>2. round \in [1 .. 9 -> [Payloads -> Payloads]]
  BY <1>1
<1>3. \A n \in 1 .. 9 : \A r \in Payloads : round[n][r] = Put(id, r, IdTags[n])
  OBVIOUS
<1> HIDE DEF round
<1>4. PICK f : IsLoop(f, 9, Payloads, Cleared, round)
  BY <1>2, ClearedType, LoopExists
<1>5. /\ f \in [0 .. 9 -> Payloads]
      /\ f[0] = Cleared
      /\ \A n \in 1 .. 9 : f[n - 1] \in Payloads /\ f[n] = round[n][f[n - 1]]
  BY <1>4, NineRounds
<1>6. ASSUME NEW r, NEW n
      PROVE  SimPut(id, r, IdTags[n]) = Put(id, r, IdTags[n])
  BY DEF SimPut
<1>7. IsFilled(f)
  <2>1. f = [n \in 0 .. 9 |-> f[n]]
    BY <1>5
  <2>2. \A n \in 0 .. 9 :
          f[n] = IF n = 0 THEN Cleared ELSE SimPut(id, f[n - 1], IdTags[n])
    <3>1. f[0] = Cleared
      BY <1>5
    <3>2. ASSUME NEW n \in 1 .. 9
          PROVE  f[n] = SimPut(id, f[n - 1], IdTags[n])
      <4>1. f[n] = Put(id, f[n - 1], IdTags[n])
        BY <1>3, <1>5
      <4> QED
        BY <1>6, <4>1
    <3> QED
      BY <3>1, <3>2
  <2> QED
    BY <2>1, <2>2
<1> DEFINE g == CHOOSE g : IsFilled(g)
<1>8. IsFilled(g)
  BY <1>7
<1>9. SimPayload(id) = g[9].data
  BY TagFacts DEF SimPayload
<1> HIDE DEF g
<1>10. /\ g[0] = Cleared
       /\ \A n \in 1 .. 9 : g[n] = Put(id, g[n - 1], IdTags[n])
  <2>1. \A n \in 0 .. 9 :
          g[n] = IF n = 0 THEN Cleared ELSE SimPut(id, g[n - 1], IdTags[n])
    BY <1>8
  <2>2. g[0] = Cleared
    BY <2>1
  <2>3. ASSUME NEW n \in 1 .. 9
        PROVE  g[n] = Put(id, g[n - 1], IdTags[n])
    <3>1. n \in 0 .. 9 /\ n # 0
      OBVIOUS
    <3>2. g[n] = SimPut(id, g[n - 1], IdTags[n])
      BY <2>1, <3>1
    <3> QED
      BY <1>6, <3>2
  <2> QED
    BY <2>2, <2>3
<1>11. g \in [0 .. 9 -> Payloads]
  <2> DEFINE S == {n \in 0 .. 9 : g[n] \in Payloads}
  <2>1. 0 \in S
    BY <1>10, ClearedType
  <2>2. ASSUME NEW n \in 1 .. 9, n - 1 \in S
        PROVE  n \in S
    BY <1>1, <1>10, <2>2
  <2> HIDE DEF S
  <2>3. \A n \in 0 .. 9 : n \in S
    BY <2>1, <2>2, InductionUpTo
  <2>4. \A n \in 0 .. 9 : g[n] \in Payloads
    BY <2>3 DEF S
  <2> QED
    BY <1>8, <2>4
<1> QED
  BY <1>9, <1>10, <1>11

\* After each field the fields so far are where they belong.
LEMMA FieldsAreInPlace ==
  ASSUME NEW id \in Lengths, FieldEnds(id)[9] <= 127,
         id["revision"] <= id["firmwareVersion"],
         NEW f \in [0 .. 9 -> Payloads], f[0] = Cleared,
         \A n \in 1 .. 9 : f[n] = Put(id, f[n - 1], IdTags[n])
  PROVE  ReadsBack(f[9].data, id)
<1> DEFINE e == FieldEnds(id)
           Placed(n) == /\ f[n].size = e[n]
                        /\ \A m \in 1 .. n : \A i \in 1 .. id[IdTags[m]] :
                             f[n].data[e[m - 1] + i] = <<IdTags[m], i>>
           S == {n \in 0 .. 9 : Placed(n)}
<1>1. /\ e \in [0 .. 9 -> Nat] /\ e[0] = 0
      /\ \A n \in 1 .. 9 : e[n] = e[n - 1] + id[IdTags[n]]
  BY EndsLoop
<1>2. \A n \in 0 .. 9 : \A m \in 0 .. n : e[m] <= e[n]
  BY EndsIncrease
<1>3. \A n \in 1 .. 9 : IdTags[n] \in Range(IdTags) /\ id[IdTags[n]] \in Nat
  BY TagFacts DEF Lengths
<1>4. \A t \in Range(IdTags) : id[t] <= Copied(id, t)
  BY DEF Copied, Lengths
<1>5. e[9] <= 127
  OBVIOUS
<1> HIDE DEF e
<1>6. 0 \in S
  BY <1>1, ClearedType
<1>7. ASSUME NEW n \in 1 .. 9, n - 1 \in S
      PROVE  n \in S
  <2> DEFINE r == f[n - 1]
             t == IdTags[n]
  <2>1. r \in Payloads /\ Placed(n - 1) /\ f[n] = Put(id, r, t)
    BY <1>7
  <2>2. e[n] = e[n - 1] + id[t] /\ e[n] <= 127 /\ e[n] \in Nat /\ e[n - 1] \in Nat
    BY <1>1, <1>2, <1>5
  <2>3. r.size = e[n - 1] /\ t \in Range(IdTags) /\ id[t] <= Copied(id, t)
    BY <1>3, <1>4, <2>1
  <2>4. r.size + id[t] <= 127
    BY <2>2, <2>3
  <2> HIDE DEF r, t
  <2>5. /\ Put(id, r, t).size = r.size + id[t]
        /\ \A i \in 1 .. id[t] : Put(id, r, t).data[r.size + i] = <<t, i>>
        /\ \A j \in 1 .. r.size : Put(id, r, t).data[j] = r.data[j]
    BY <2>1, <2>3, <2>4, PutFacts
  <2>6. ASSUME NEW m \in 1 .. n, NEW i \in 1 .. id[IdTags[m]]
        PROVE  f[n].data[e[m - 1] + i] = <<IdTags[m], i>>
    <3>1. CASE m = n
      BY <2>1, <2>3, <2>5, <3>1 DEF t
    <3>2. CASE m # n
      <4>1. m \in 1 .. (n - 1) /\ m \in 1 .. 9 /\ m \in 0 .. (n - 1)
        BY <3>2
      <4>2. e[m] <= e[n - 1] /\ e[m] = e[m - 1] + id[IdTags[m]] /\ e[m - 1] \in Nat
        BY <1>1, <1>2, <4>1
      <4>3. e[m - 1] + i \in 1 .. r.size
        BY <1>3, <2>2, <2>3, <4>1, <4>2
      <4>4. r.data[e[m - 1] + i] = <<IdTags[m], i>>
        BY <2>1, <4>1 DEF r
      <4> QED
        BY <2>1, <2>5, <4>3, <4>4
    <3> QED
      BY <3>1, <3>2
  <2>7. f[n].size = e[n]
    BY <2>1, <2>2, <2>3, <2>5
  <2>8. Placed(n)
    BY <2>6, <2>7
  <2> HIDE DEF Placed
  <2> QED
    BY <2>8
<1> HIDE DEF S
<1>8. \A n \in 0 .. 9 : n \in S
  BY <1>6, <1>7, InductionUpTo
<1>9. Placed(9)
  <2>1. 9 \in S
    BY <1>8
  <2> QED
    BY <2>1 DEF S
<1> QED
  BY <1>9, TagFacts DEF ReadsBack, e

\* Whatever identification a device has: if its fields fit varlengthdata and the
\* revision is no longer than the firmware version, whose length is used for it,
\* the fields of a discovery response of the core can be read back.
THEOREM FittingFieldsReadBack ==
  ASSUME NEW id \in Lengths, FieldEnds(id)[9] <= 127,
         id["revision"] <= id["firmwareVersion"]
  PROVE  ReadsBack(DevicePayload(id), id)
<1>1. PICK f \in [0 .. 9 -> Payloads] :
        /\ DevicePayload(id) = f[9].data
        /\ f[0] = Cleared
        /\ \A n \in 1 .. 9 : f[n] = Put(id, f[n - 1], IdTags[n])
  BY DevicePayloadLoop
<1>2. ReadsBack(f[9].data, id)
  BY <1>1, FieldsAreInPlace
<1> QED
  BY <1>1, <1>2

\* And of the simulator, if it has no product id.
LEMMA SimFieldsReadBack ==
  ASSUME NEW id \in Lengths, FieldEnds(id)[9] <= 127,
         id["revision"] <= id["firmwareVersion"], id["productId"] = 0
  PROVE  ReadsBack(SimPayload(id), id)
<1>1. PICK f \in [0 .. 9 -> Payloads] :
        /\ SimPayload(id) = f[9].data
        /\ f[0] = Cleared
        /\ \A n \in 1 .. 9 : f[n] = Put(id, f[n - 1], IdTags[n])
  BY SimPayloadLoop
<1>2. ReadsBack(f[9].data, id)
  BY <1>1, FieldsAreInPlace
<1> QED
  BY <1>1, <1>2

LEMMA TagSet ==
  Range(IdTags) = {"hardwareId", "productId", "productName", "modelName", "vendorId",
                   "firmwareVersion", "revision", "deviceLoc", "devMsuParam"}
  BY DEF IdTags, Range

\* The last field ends at the sum of the lengths.
LEMMA EndOfFields ==
  ASSUME NEW id \in Lengths
  PROVE  FieldEnds(id)[9] = id["hardwareId"] + id["productId"] + id["productName"]
               + id["modelName"] + id["vendorId"] + id["firmwareVersion"]
               + id["revision"] + id["deviceLoc"] + id["devMsuParam"]
<1> DEFINE e == FieldEnds(id)
<1>1. /\ e \in [0 .. 9 -> Nat] /\ e[0] = 0
      /\ \A n \in 1 .. 9 : e[n] = e[n - 1] + id[IdTags[n]]
  BY EndsLoop
<1>2. \A t \in Range(IdTags) : id[t] \in Nat
  BY DEF Lengths
<1> HIDE DEF e
<1>3. /\ e[1] = e[0] + id[IdTags[1]] /\ e[2] = e[1] + id[IdTags[2]]
      /\ e[3] = e[2] + id[IdTags[3]] /\ e[4] = e[3] + id[IdTags[4]]
      /\ e[5] = e[4] + id[IdTags[5]] /\ e[6] = e[5] + id[IdTags[6]]
      /\ e[7] = e[6] + id[IdTags[7]] /\ e[8] = e[7] + id[IdTags[8]]
      /\ e[9] = e[8] + id[IdTags[9]]
  BY <1>1
<1>4. /\ IdTags[1] = "hardwareId" /\ IdTags[2] = "productId" /\ IdTags[3] = "productName"
      /\ IdTags[4] = "modelName" /\ IdTags[5] = "vendorId" /\ IdTags[6] = "firmwareVersion"
      /\ IdTags[7] = "revision" /\ IdTags[8] = "deviceLoc" /\ IdTags[9] = "devMsuParam"
  BY DEF IdTags
<1> QED
  BY <1>1, <1>2, <1>3, <1>4, TagSet DEF e

\* The identifications of the three builds fit.
LEMMA IdentificationsFit ==
  ASSUME NEW b \in Builds
  PROVE  LET id == WithDevMsuParam(b)
         IN  /\ id \in Lengths
             /\ FieldEnds(id)[9] <= 127
             /\ id["revision"] <= id["firmwareVersion"]
             /\ b = "simulator" => id["productId"] = 0
<1> DEFINE id == WithDevMsuParam(b)
<1>1. BasicIdentification[b] \in [Range(IdTags) -> 0 .. 127]
  BY IdentificationTypes DEF BasicIdentification, Builds
<1>2. id = [BasicIdentification[b] EXCEPT !.devMsuParam = 9]
  BY DEF WithDevMsuParam, DevMsuParamSize
<1>3. id \in Lengths
  BY <1>1, <1>2 DEF Lengths
<1>4. /\ id["devMsuParam"] = 9
      /\ \A t \in Range(IdTags) \ {"devMsuParam"} : id[t] = BasicIdentification[b][t]
  BY <1>1, <1>2, TagSet
<1> HIDE DEF id
<1>5. CASE b = "device"
  <2>1. BasicIdentification[b] = DeviceIdentification
    BY <1>5 DEF BasicIdentification
  <2>2. /\ id["hardwareId"] = 1 /\ id["productId"] = 12 /\ id["productName"] = 19
        /\ id["modelName"] = 0 /\ id["vendorId"] = 9 /\ id["firmwareVersion"] = 2
        /\ id["revision"] = 1 /\ id["deviceLoc"] = 4
    BY <1>4, <2>1, TagSet DEF DeviceIdentification, NoIdentification
  <2> QED
    BY <1>3, <1>4, <1>5, <2>2, EndOfFields DEF id
<1>6. CASE b = "modbus"
  <2>1. BasicIdentification[b] = ModbusIdentification
    BY <1>6 DEF BasicIdentification
  <2>2. /\ id["hardwareId"] = 0 /\ id["productId"] = 0 /\ id["productName"] = 12
        /\ id["modelName"] = 0 /\ id["vendorId"] = 18 /\ id["firmwareVersion"] = 2
        /\ id["revision"] = 1 /\ id["deviceLoc"] = 0
    BY <1>4, <2>1, TagSet DEF ModbusIdentification, NoIdentification
  <2> QED
    BY <1>3, <1>4, <1>6, <2>2, EndOfFields DEF id
<1>7. CASE b = "simulator"
  <2>1. BasicIdentification[b] = SimIdentification
    BY <1>7 DEF BasicIdentification
  <2>2. /\ id["hardwareId"] = 0 /\ id["productId"] = 0 /\ id["productName"] = 0
        /\ id["modelName"] = 0 /\ id["vendorId"] = 9 /\ id["firmwareVersion"] = 0
        /\ id["revision"] = 0 /\ id["deviceLoc"] = 0
    BY <1>4, <2>1, TagSet DEF SimIdentification, NoIdentification
  <2> QED
    BY <1>3, <1>4, <1>7, <2>2, EndOfFields DEF id
<1> QED
  BY <1>5, <1>6, <1>7 DEF Builds

LEMMA DiscoveryPayloadReadsBack ==
  ASSUME NEW b \in Builds
  PROVE  ReadsBack(DiscoveryPayload[b], WithDevMsuParam(b))
<1>1. CASE b = "simulator"
  <2>1. DiscoveryPayload[b] = SimPayload(WithDevMsuParam(b))
    BY <1>1 DEF DiscoveryPayload
  <2> QED
    BY <1>1, <2>1, IdentificationsFit, SimFieldsReadBack
<1>2. CASE b # "simulator"
  <2>1. DiscoveryPayload[b] = DevicePayload(WithDevMsuParam(b))
    BY <1>2 DEF DiscoveryPayload
  <2> QED
    BY <2>1, IdentificationsFit, FittingFieldsReadBack
<1> QED
  BY <1>1, <1>2

\* A discovery response is one of the build that sends it, whatever was exchanged
\* before: each field of it can be read back by its length.
THEOREM DiscoveryIsReadBack == Spec => []DiscoveryReadsBack
<1>1. Init => DiscoveryReadsBack
  BY DEF Init, DiscoveryReadsBack, Nothing
<1>2. IdentityTypeOK /\ DiscoveryReadsBack /\ [Next]_vars => DiscoveryReadsBack'
  <2> SUFFICES ASSUME IdentityTypeOK, DiscoveryReadsBack, [Next]_vars,
                      reply'.type = "discovery"
               PROVE  ReadsBack(reply'.data, reply'.lengths)
    BY DEF DiscoveryReadsBack, ReadsBack, FieldEnds
  <2>1. CASE UNCHANGED reply
    BY <2>1 DEF DiscoveryReadsBack
  <2>2. ASSUME NEW low \in Addresses, NEW high \in Addresses, NEW complete \in BOOLEAN,
               Discovery(low, high, complete)
        PROVE  reply' \in {reply, DiscoveryResponse}
    BY <2>2 DEF Discovery, TellsGroup
  <2>3. CASE reply' = DiscoveryResponse
    <3>1. build \in Builds
      BY DEF IdentityTypeOK
    <3>2. reply'.data = DiscoveryPayload[build] /\ reply'.lengths = WithDevMsuParam(build)
      BY <2>3 DEF DiscoveryResponse
    <3> QED
      BY <3>1, <3>2, DiscoveryPayloadReadsBack
  <2>4. ASSUME NEW m \in GroupMessages, GroupMessage(m)
        PROVE  UNCHANGED reply
    <3>1. GroupAck(m).type = "groupAck"
      BY DEF GroupAck
    <3> QED
      BY <2>4, <3>1 DEF GroupMessage, TellsGroup
  <2>5. ASSUME NEW req \in Requests, Authentication(req)
        PROVE  UNCHANGED reply
    BY <2>5, AnswerTypes DEF Authentication
  <2>6. UNCHANGED vars => UNCHANGED reply
    BY DEF vars
  <2> QED
    BY <2>1, <2>2, <2>3, <2>4, <2>5, <2>6 DEF Next, DiscoveryOfOthers
<1> QED
  BY <1>1, <1>2, IdentityTypes, PTL DEF Spec
=============================================================================
