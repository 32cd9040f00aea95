----------------------------- MODULE MCStrings -----------------------------
(***************************************************************************)
(* The string kernels over every text built from at most MaxPieces pieces. *)
(* Each text is scanned as a token behind and before runs of plain bytes,  *)
(* so that what matters falls on every side of the block boundaries, and   *)
(* printed when it is a payload.                                           *)
(***************************************************************************)
EXTENDS StringScan, StringWrite

LOCAL INSTANCE FiniteSetsExt
LOCAL INSTANCE SequencesExt

CONSTANT MaxPieces

Json == INSTANCE JsonStrings

VARIABLES text, pieces
vars == <<text, pieces>>

(* x, a quote, a backslash, an unfinished escape, a control character, lead
   and continuation bytes at the edges of their ranges, whole escapes. *)
Hex(a, b, c, d) == <<Backslash, 117, a, b, c, d>>
Pieces ==
  { <<120>>, <<Quote>>, <<Backslash>>, <<Backslash, 117, 48, 48>>,
    <<Backslash, 110, Backslash, 110>>, <<31>>, <<194>>, <<224, 160>>, <<237, 160>>, <<240, 143>>,
    <<244, 128>>, <<128>>, <<159, 128>>, Hex(100, 56, 51, 100),
    Hex(68, 69, 48, 48), Hex(48, 48, 49, 70), <<Backslash, 47>> }

Plain(n) == [i \in 1..n |-> 120]
Init == text = <<>> /\ pieces = 0
Extend ==
  /\ pieces < MaxPieces
  /\ \E p \in Pieces : text' = text \o p
  /\ pieces' = pieces + 1
Complete == pieces = MaxPieces /\ UNCHANGED vars
Next == Extend \/ Complete
Spec == Init /\ [][Next]_vars

(* Runs of plain bytes before and after the text; the second is followed by
   a closing quote. *)
Margins == {<<0, 0>>, <<7, 16>>, <<14, 34>>}
Tokens ==
  {<<Quote>> \o Plain(m[1]) \o text \o Plain(m[2]) \o <<Quote>> : m \in Margins}
Payloads == {Plain(m[1]) \o text \o Plain(m[2]) : m \in Margins}

(* Every kernel finds the end of a token where the grammar does, and refuses
   exactly the texts that are no token, wherever the block boundaries fall
   (deserialize/naive, swar and simd/string.ts; the scalar kernel is
   documented as the oracle of the others). *)
ScannersAgree ==
  \A s \in Tokens, trusted \in BOOLEAN :
    LET token == Json!Token(s, trusted)
    IN /\ ScanNaive(s, trusted) = token
       /\ ScanSwar(s, trusted) = token
       /\ ScanSimd(s, trusted) = token
       /\ ScanStringKernel(s, trusted) = token

(* In every word of the text, and of the text with brackets, braces and the
   letter beside them in place of other bytes: a borrow may add a candidate above a
   true one but never hides one, and the first candidate is always true.  The
   kernels rest on it. *)
FirstCandidateTrue ==
  LET s == Plain(7) \o text \o Plain(7)
      Edge == [b \in Byte |-> CASE b = 120 -> 122 [] b = 31 -> 123
                                [] b = Backslash -> CloseBracket [] OTHER -> b]
  IN \A p \in 1..(Len(s) - 7) :
      LET w == Load(s, p)
      IN /\ CandidatesTrue(w)
         /\ CandidatesTrue([i \in Lanes |-> Edge[w[i]]])

(* A retained payload is printed as JSON.stringify spells the string it
   stands for, by every kernel; pairs of surrogate escapes become one
   character and lone ones stay escaped. *)
PrintedCanonically ==
  \A s \in Payloads :
    Json!IsPayload(s) =>
      LET escaped == \E i \in DOMAIN s : s[i] = Backslash
          canonical == Json!Canonical(s)
      IN /\ SerializeNaive(s, escaped) = canonical
         /\ SerializeSwar(s, escaped).bytes = canonical
         /\ SerializeSimd(s, escaped).bytes = canonical
         /\ SerializeNaive(s, TRUE) = canonical

(* The wide kernels claim exactly as many bytes of the output as they then
   store: fewer would overrun the claim, more would leave garbage in the
   text. *)
ClaimedExactly ==
  /\ \A s \in Payloads :
       Json!IsPayload(s) =>
         LET escaped == \E i \in DOMAIN s : s[i] = Backslash
         IN \A r \in {SerializeSwar(s, escaped), SerializeSimd(s, escaped)} :
              r.required = Len(r.bytes)
  /\ LET s == Plain(3) \o text \o Plain(18)
         written == WriteUtf8(s)
     IN MeasureUtf8(s) = Len(written) /\ written = Json!QuotedText(s)

(* A key is taken for a field exactly when it spells the field's name,
   however it is escaped: it matches what it decodes to and no text that
   differs from it in one byte or in its length (scanner.ts: matchJsonKey). *)
KeysMatchDecoded ==
  Json!IsPayload(text) =>
    LET name == Json!Meaning(Json!Elements(text))
        Others == {Append(name, 120)}
          \union {SubSeq(name, 1, Len(name) - 1) : i \in DOMAIN name}
          \union {[name EXCEPT ![i] = (@ + 1) % 256] : i \in DOMAIN name}
    IN /\ MatchJsonKey(text, 1, name, 1)
       /\ \A other \in Others : ~MatchJsonKey(text, 1, other, 1)
=============================================================================
