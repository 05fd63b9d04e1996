-------------------------------- MODULE CellID --------------------------------
(***************************************************************************)
(* Cell ids: a BitField64 cuts a word of 64 bits into named fields; a      *)
(* CellIDEncoder writes it into the two cell id words of a hit and sets the *)
(* flag of the collection if the second is needed, since the file keeps it *)
(* only then; a CellIDDecoder puts the words together again.  An int has   *)
(* WordBits bits here, the field 2 * WordBits.                             *)
(***************************************************************************)
EXTENDS Integers, Sequences, FiniteSetsExt

CONSTANTS
  WordBits,
  Encodings,    \* sequences of [offset, width, signed]
  Hits,         \* addresses of hits
  TopValue,     \* may 2^width be assigned to an unsigned field of that width?
  KeepsDecoder  \* does a decoder stay for the next event?

ASSUME CellAssumption ==
  /\ WordBits \in Nat \ {0} /\ "none" \notin Hits /\ TopValue \in BOOLEAN /\ KeepsDecoder \in BOOLEAN
  \* Of other widths the masks and extreme values are undefined shifts.
  /\ Encodings \subseteq Seq([offset : Nat, width : 1 .. 2 * WordBits - 1, signed : BOOLEAN])
  /\ \A e \in Encodings : \A i \in DOMAIN e : e[i].signed \/ e[i].width < WordBits

VARIABLES
  enc,       \* the encoding, a parameter of the collection
  bits,      \* the encoder's _value
  assigned,  \* history: what the encoder's fields were given
  hits,      \* address -> cell id words and the history of their fields
  decoder    \* _value and _oldHit of a decoder

cellVars == <<enc, bits, assigned, hits, decoder>>

\* 1LL << n
Pow2[n \in Nat] == IF n = 0 THEN 1 ELSE 2 * Pow2[n - 1]

NoHit == [lo |-> 0, hi |-> 0, fields |-> << >>]
NewDecoder == [bits |-> 0, hit |-> "none"]
Zeros(e) == [i \in DOMAIN e |-> 0]

\* addField: the sanity check, and the check for bits already used.
FieldBits(f) == f.offset..(f.offset + f.width - 1)
Legal(e) ==
  /\ \A i \in DOMAIN e : e[i].offset + e[i].width <= 2 * WordBits
  /\ \A i, j \in DOMAIN e : i # j => FieldBits(e[i]) \cap FieldBits(e[j]) = {}

CellInit ==
  /\ enc \in {e \in Encodings : Legal(e)}
  /\ bits = 0 /\ assigned = Zeros(enc)
  /\ hits = [h \in Hits |-> NoHit] /\ decoder = NewDecoder

AsInt(n) == LET u == n % Pow2[WordBits] IN IF u >= Pow2[WordBits - 1] THEN u - Pow2[WordBits] ELSE u

\* _minVal and _maxVal, which are ints; the second is one too high.
MinVal(f) == IF f.signed THEN AsInt(-(Pow2[f.width - 1])) ELSE 0
MaxVal(f) == AsInt(IF f.signed THEN Pow2[f.width - 1] - 1 ELSE Pow2[f.width])

Raw(b, f) == (b \div Pow2[f.offset]) % Pow2[f.width]
\* BitFieldValue::value.
Value(b, f) ==
  IF f.signed /\ Raw(b, f) >= Pow2[f.width - 1] THEN Raw(b, f) - Pow2[f.width] ELSE Raw(b, f)
\* BitFieldValue::operator=: other bits stay.
Stored(b, f, v) == b + ((v % Pow2[f.width]) - Raw(b, f)) * Pow2[f.offset]

\* operator=, which throws if the value is out of range.
Assign(i, v) ==
  /\ TopValue \/ enc[i].signed \/ v # Pow2[enc[i].width]
  /\ v >= MinVal(enc[i]) /\ v <= MaxVal(enc[i])
  /\ bits' = Stored(bits, enc[i], v) /\ assigned' = [assigned EXCEPT ![i] = v]
  /\ UNCHANGED <<enc, hits, decoder>>

Reset ==
  /\ bits' = 0 /\ assigned' = Zeros(enc)
  /\ UNCHANGED <<enc, hits, decoder>>

\* CellIDEncoder::setCellID; a client does not change the hit it just decoded.
SetCellID(h) ==
  /\ decoder.hit # h
  /\ hits' = [hits EXCEPT ![h] =
       [lo |-> bits % Pow2[WordBits], hi |-> bits \div Pow2[WordBits], fields |-> assigned]]
  /\ UNCHANGED <<enc, bits, assigned, decoder>>

\* Mutant: where the last field starts, not where it ends.
HighestOffset(e) == Max({e[i].offset : i \in DOMAIN e})
HighestBit(e) == Max({e[i].offset + e[i].width : i \in DOMAIN e})
\* setCellIDFlag.
NeedsSecondWord == HighestBit(enc) > WordBits - 1

\* The event is written, deleted and read again: the hits have other addresses.
ThroughCellFile ==
  /\ \E to \in [Hits -> Hits] :
       /\ \A g, h \in Hits : to[g] = to[h] => g = h
       /\ hits' = [h \in Hits |->
                     IF NeedsSecondWord THEN hits[to[h]] ELSE [hits[to[h]] EXCEPT !.hi = 0]]
  /\ decoder' = IF KeepsDecoder THEN decoder ELSE NewDecoder
  /\ UNCHANGED <<enc, bits, assigned>>

\* CellIDDecoder::operator(): a hit at the address of the last one is not read.
DecodeHit(h) ==
  /\ hits[h] # NoHit
  /\ decoder' = IF h = decoder.hit THEN decoder
                ELSE [bits |-> hits[h].lo + hits[h].hi * Pow2[WordBits], hit |-> h]
  /\ UNCHANGED <<enc, bits, assigned, hits>>

InputsOf(f) == -(Pow2[f.width - 1]) - 1 .. Pow2[f.width]
CellNext ==
  \/ \E i \in DOMAIN enc : \E v \in InputsOf(enc[i]) : Assign(i, v)
  \/ Reset \/ ThroughCellFile
  \/ \E h \in Hits : SetCellID(h) \/ DecodeHit(h)

CellSpec == CellInit /\ [][CellNext]_cellVars

-----------------------------------------------------------------------------
\* What a decoder says of a hit is what was given to the encoder's fields, for
\* every field, next to others, and after any number of files.
FieldsSurvive ==
  decoder.hit \in {h \in Hits : hits[h] # NoHit} =>
    \A i \in DOMAIN enc : Value(decoder.bits, enc[i]) = hits[decoder.hit].fields[i]
=============================================================================
