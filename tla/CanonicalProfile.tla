--------------------------- MODULE CanonicalProfile ---------------------------
(***************************************************************************)
(* The bytes a profile is signed over and how a signal carries them:       *)
(* canonicalBytes and canonicalJson (src/profile.js), toHex and fromHex    *)
(* (src/ce.js).  A value is a pair of its type and its content; an object  *)
(* is its members in the order they were set, a member a pair of a key and *)
(* a value.  Keys are numbers in their order.  A key, a number or a word   *)
(* is one byte of the text.                                                *)
(***************************************************************************)
EXTENDS Integers, Sequences, SequencesExt, FiniteSets

CONSTANTS Values,     \* the values profiles are made of,
          Depth,      \* how deep each of them is nested, and
          Documents,  \* the profiles, as objects
          Payloads,   \* other bytes the clients send as hex
          SigKey      \* the key of the signature

Keys == 1 .. 9
Leaves == {"null", "number", "notFinite", "undefined"}

\* The values right within a value.
Contents(v) ==
  CASE v[1] = "array" -> {v[2][i] : i \in DOMAIN v[2]}
    [] v[1] = "object" -> {v[2][i][2] : i \in DOMAIN v[2]}
    [] OTHER -> {}

\* A value is finite, as no JSON value contains itself, and an object has a key
\* once.
ASSUME CanonicalAssumption ==
  /\ SigKey \in Keys
  /\ Payloads \subseteq Seq(0 .. 255)
  /\ Depth \in [Values -> Nat]
  /\ \A v \in Values :
       /\ v = <<v[1], v[2]>>
       /\ \/ v[1] = "array" /\ v[2] \in Seq(Values)
          \/ /\ v[1] = "object" /\ v[2] \in Seq(Keys \X Values)
             /\ \A i, j \in DOMAIN v[2] : v[2][i][1] = v[2][j][1] => i = j
          \/ v[1] \in Leaves /\ v[2] \in 0 .. 9 /\ (v[1] = "null" => v[2] = 0)
       /\ \A w \in Contents(v) : Depth[w] < Depth[v]
  /\ \A d \in Documents : d \in Values /\ d[1] = "object"

VARIABLES content,    \* what is sent: a document, or a payload as bytes
          sending,    \* "whole", "encoded", "refused", "hex", "read"
          bytes, hex, received
canonicalVars == <<content, sending, bytes, hex, received>>

CanonicalInit(documents, payloads) ==
  /\ content \in documents \cup {<<"bytes", p>> : p \in payloads}
  /\ sending = "whole" /\ bytes = <<>> /\ hex = <<>> /\ received = <<>>

\* The characters of the text, and a byte that stands for a throw.
Brace == 123
CloseBrace == 125
Bracket == 91
CloseBracket == 93
Comma == 44
Colon == 58
Null == 110
Throw == 255
KeyByte(key) == 96 + key
NumberByte(v) == 48 + v

Text(open, parts, close) ==
  <<open>> \o FlattenSeq([i \in DOMAIN parts |-> IF i = 1 THEN parts[i] ELSE <<Comma>> \o parts[i]])
    \o <<close>>
Labelled(key, text) == <<KeyByte(key), Colon>> \o text
Leaf(v) ==
  IF v[1] = "null" THEN <<Null>>
  ELSE IF v[1] = "number" THEN <<NumberByte(v[2])>>
  ELSE <<Throw>>  \* not finite, a bigint, or undefined in an array

\* The members of an object that are left in, and those that are signed.
Present(v) == {i \in DOMAIN v[2] : v[2][i][2][1] # "undefined"}
Signed(d) == {i \in Present(d) : d[2][i][1] # SigKey}

\* Slip: some of the members, in the order they were set.
AsSet(s, I) ==
  [i \in 1 .. Cardinality(I) |-> s[CHOOSE j \in I : Cardinality({k \in I : k < j}) = i - 1]]

\* Some of the members in the order of their keys.
ByKey(s, I) ==
  [i \in 1 .. Cardinality(I) |->
     s[CHOOSE j \in I : Cardinality({k \in I : s[k][1] < s[j][1]}) = i - 1]]

\* Members that are written as an object, given the texts of their values.
ObjectText(json, members) ==
  Text(Brace, [i \in DOMAIN members |-> Labelled(members[i][1], json[members[i][2]])], CloseBrace)

\* Keys are sorted at every depth, undefined members left out.
JsonText(json, v) ==
  CASE v[1] = "array" -> Text(Bracket, [i \in DOMAIN v[2] |-> json[v[2][i]]], CloseBracket)
    [] v[1] = "object" -> ObjectText(json, ByKey(v[2], Present(v)))
    [] OTHER -> Leaf(v)
CanonicalJson[v \in Values] == JsonText(CanonicalJson, v)

\* The signature of the profile itself is left out.
CanonicalBytes(d) == ObjectText(CanonicalJson, ByKey(d[2], Signed(d)))

ToHex(bs) == FlattenSeq([i \in DOMAIN bs |-> <<bs[i] \div 16, bs[i] % 16>>])
FromHex(h) == [i \in 1 .. Len(h) \div 2 |-> 16 * h[2 * i - 1] + h[2 * i]]

Encodes ==
  /\ sending = "whole"
  /\ bytes' = IF content[1] = "bytes" THEN content[2] ELSE CanonicalBytes(content)
  /\ sending' = IF content[1] # "bytes" /\ Throw \in ToSet(bytes') THEN "refused" ELSE "encoded"
  /\ UNCHANGED <<content, hex, received>>

Sends ==
  /\ sending = "encoded" /\ sending' = "hex" /\ hex' = ToHex(bytes)
  /\ UNCHANGED <<content, bytes, received>>

Decodes ==
  /\ sending = "hex" /\ sending' = "read" /\ received' = FromHex(hex)
  /\ UNCHANGED <<content, bytes, hex>>

CanonicalNext == Encodes \/ Sends \/ Decodes
CanonicalSpec == CanonicalInit(Documents, Payloads) /\ [][CanonicalNext]_canonicalVars

-----------------------------------------------------------------------------
(***************************************************************************)
(* Properties.                                                             *)
(***************************************************************************)
\* What a value says, without the order it was built in.
Said(meaning, s, I) == {<<s[i][1], meaning[s[i][2]]>> : i \in I}
Says(meaning, v) ==
  CASE v[1] = "array" -> <<"array", [i \in DOMAIN v[2] |-> meaning[v[2][i]]]>>
    [] v[1] = "object" -> <<"object", Said(meaning, v[2], Present(v))>>
    [] OTHER -> v
Meaning[v \in Values] == Says(Meaning, v)

\* JSON would alter it: it holds something that is no JSON value, other than
\* an undefined member.
Alters(altered, v) ==
  CASE v[1] = "array" -> \E i \in DOMAIN v[2] : altered[v[2][i]]
    [] v[1] = "object" -> \E i \in Present(v) : altered[v[2][i][2]]
    [] OTHER -> v[1] \notin {"null", "number"}
Altered[v \in Values] == Alters(Altered, v)

\* The same of a profile, but for its signature.
MeaningOf == [d \in Documents |-> Said(Meaning, d[2], Signed(d))]
IsAltered(d) == \E i \in Signed(d) : Altered[d[2][i][2]]
BytesOf == [d \in Documents |-> CanonicalBytes(d)]

\* What a reader gets out of the hex is what was put in; the bytes of a
\* profile are those of exactly the profiles that say the same, however they
\* were built and whether or not they are signed; and one that JSON would
\* alter is refused (profile.js 400-446, ce.js 418-431).
SignedAsMeant ==
  /\ sending = "read" => received = bytes
  /\ sending = "refused" => IsAltered(content)
  /\ sending = "encoded" /\ content[1] = "object" =>
       /\ ~IsAltered(content)
       /\ \A d \in Documents : (bytes = BytesOf[d]) = (MeaningOf[content] = MeaningOf[d])
=============================================================================
