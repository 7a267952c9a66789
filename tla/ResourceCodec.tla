--------------------------- MODULE ResourceCodec ---------------------------
(***************************************************************************)
(* BaseResource.Marshal and BaseResource.Unmarshal                        *)
(* (runtime/resources/types.go) as operators over byte sequences.          *)
(*                                                                         *)
(* The widths are parameters: IdLen for the 32-byte ResourceID, AddrLen    *)
(* for the 33-byte codec.Address, OwnerSlot for the 32 bytes the layout    *)
(* reserves for it, LenWidth for a big-endian uint32 length, AbilityWidth  *)
(* for the 8-byte ability slot, and a byte holds 0..Base-1.  Every Go     *)
(* index, slice and binary.BigEndian call that can run past the end of    *)
(* its slice yields Panic.                                                 *)
(***************************************************************************)
EXTENDS Naturals, Sequences, SequencesExt

CONSTANTS Base, IdLen, AddrLen, OwnerSlot, LenWidth, AbilityWidth,
          Ok, Err, Panic

Byte == 0..(Base - 1)

Zeros(n) == [i \in 1..n |-> 0]

\* The zero BaseResource an Unmarshal call decodes into.
Fresh == [id |-> Zeros(IdLen), name |-> <<>>, abilities |-> <<>>,
          owner |-> Zeros(AddrLen), data |-> <<>>, moved |-> FALSE]

\* NewBaseResource(id, typ, owner, data): a not-yet-moved resource holding
\* copies of the id and the data (copies of values are the values here);
\* typ is a core.ResourceType, its Name and Abilities.
NewBaseResource(id, typ, owner, data) ==
    [id |-> id, name |-> typ.name, abilities |-> typ.abilities,
     owner |-> owner, data |-> data, moved |-> FALSE]

\* BaseResource.MarkMoved.
MarkMoved(r) == [r EXCEPT !.moved = TRUE]

\* copy(dst[o:], src): as many bytes as fit.
CopyAt(dst, o, src) ==
    [i \in 1..Len(dst) |-> IF o < i /\ i <= o + Len(src) THEN src[i - o] ELSE dst[i]]

\* binary.BigEndian.PutUint32(b, uint32(n)): the value modulo the width.
PutUint(n) == [i \in 1..LenWidth |-> (n \div Base^(LenWidth - i)) % Base]

\* binary.BigEndian.Uint32(b[o:]).
GetUint(b, o) ==
    IF o + LenWidth > Len(b) THEN Panic
    ELSE FoldLeft(LAMBDA acc, x : acc * Base + x, 0, SubSeq(b, o + 1, o + LenWidth))

\* An ability is cut to, or zero-padded to, its slot ...
Pad(a) ==
    IF Len(a) > AbilityWidth THEN SubSeq(a, 1, AbilityWidth)
    ELSE a \o Zeros(AbilityWidth - Len(a))

\* ... and read back with bytes.TrimRight(.., "\x00").
RECURSIVE TrimZeros(_)
TrimZeros(s) == IF s # <<>> /\ Last(s) = 0 THEN TrimZeros(Front(s)) ELSE s

(***************************************************************************)
(* Marshal: a zeroed buffer of the computed size and the writes into it,  *)
(* in the code's order and at the code's offsets.                          *)
(***************************************************************************)
TotalSizeNoFlag(r) ==
    IdLen + LenWidth + Len(r.name) + LenWidth + Len(r.abilities) * AbilityWidth
    + OwnerSlot + LenWidth + Len(r.data)

TotalSize(r) ==
    IdLen + LenWidth + Len(r.name) + LenWidth + Len(r.abilities) * AbilityWidth
    + OwnerSlot + LenWidth + Len(r.data) + 1

Copy(o, s) == [op |-> "copy", at |-> o, bytes |-> s]
Put(o, n)  == [op |-> "put", at |-> o, n |-> n]
Set(o, v)  == [op |-> "set", at |-> o, n |-> v]

Apply(b, w) ==
    IF b = Panic THEN Panic
    ELSE CASE w.op = "copy" -> IF w.at > Len(b) THEN Panic ELSE CopyAt(b, w.at, w.bytes)
           [] w.op = "put"  -> IF w.at + LenWidth > Len(b) THEN Panic
                               ELSE CopyAt(b, w.at, PutUint(w.n))
           [] w.op = "set"  -> IF w.at >= Len(b) THEN Panic
                               ELSE [b EXCEPT ![w.at + 1] = w.n]

Marshal(r) ==
    LET k      == Len(r.abilities)
        oName  == IdLen
        oAb    == oName + LenWidth + Len(r.name)
        oOwner == oAb + LenWidth + k * AbilityWidth
        oData  == oOwner + OwnerSlot
        oMoved == oData + LenWidth + Len(r.data)
        writes ==
            << Copy(0, r.id), Put(oName, Len(r.name)), Copy(oName + LenWidth, r.name),
               Put(oAb, k) >>
            \o [i \in 1..k |-> Copy(oAb + LenWidth + (i - 1) * AbilityWidth,
                                    Pad(r.abilities[i]))]
            \o << Copy(oOwner, r.owner), Put(oData, Len(r.data)),
                  Copy(oData + LenWidth, r.data) >>
            \o (IF r.moved THEN << Set(oMoved, 1) >> ELSE << >>)
    IN  FoldLeft(Apply, Zeros(TotalSize(r)), writes)

(***************************************************************************)
(* Unmarshal decodes into the receiver field by field and returns at the  *)
(* first check that fails, leaving the fields already written in place;   *)
(* the result is that error (or Panic) and the receiver as it was left.    *)
(***************************************************************************)
Result(e, r) == [err |-> e, res |-> r]

\* The literal 73: id, name length, abilities length, owner and moved flag.
MinLen == IdLen + LenWidth + LenWidth + OwnerSlot + 1

\* data[o] for the moved flag.
ByteAt(d, o) == IF o < Len(d) THEN d[o + 1] ELSE Panic

\* The loop over abilitiesLen slots, each bounds-checked before it is read.
RECURSIVE ReadAbilities(_, _, _, _)
ReadAbilities(d, o, abs, i) ==
    IF i > Len(abs) THEN [ok |-> TRUE, off |-> o, abilities |-> abs]
    ELSE IF o + AbilityWidth > Len(d) THEN [ok |-> FALSE, off |-> o, abilities |-> abs]
    ELSE ReadAbilities(d, o + AbilityWidth,
                       [abs EXCEPT ![i] = TrimZeros(SubSeq(d, o + 1, o + AbilityWidth))],
                       i + 1)

DataFitsNoFlag(d, o, n) == o + n <= Len(d)

\* "offset+int(dataLen) > len(data)-1 // -1 for moved flag" refuses.
DataFits(d, o, n) == o + n <= Len(d) - 1

Unmarshal(d, r0) ==
  IF Len(d) < MinLen THEN Result(Err, r0) ELSE
  LET r1 == [r0 EXCEPT !.id = SubSeq(d, 1, IdLen)]
      nameLen == GetUint(d, IdLen)
      o2 == IdLen + LenWidth
  IN
  IF nameLen = Panic THEN Result(Panic, r1) ELSE
  IF o2 + nameLen > Len(d) THEN Result(Err, r1) ELSE
  LET r2 == [r1 EXCEPT !.name = SubSeq(d, o2 + 1, o2 + nameLen)]
      o3 == o2 + nameLen
  IN
  IF o3 + LenWidth > Len(d) THEN Result(Err, r2) ELSE
  LET ab == ReadAbilities(d, o3 + LenWidth,
                          [i \in 1..GetUint(d, o3) |-> <<>>], 1)
      r3 == [r2 EXCEPT !.abilities = ab.abilities]
      o4 == ab.off
  IN
  IF ~ab.ok \/ o4 + OwnerSlot > Len(d) THEN Result(Err, r3) ELSE
  \* copy(r.ownerAddr[:], data[offset:offset+32]) fills OwnerSlot of the
  \* AddrLen bytes and leaves the rest as they were.
  LET r4 == [r3 EXCEPT !.owner = CopyAt(r3.owner, 0, SubSeq(d, o4 + 1, o4 + OwnerSlot))]
      o5 == o4 + OwnerSlot
  IN
  IF o5 + LenWidth > Len(d) THEN Result(Err, r4) ELSE
  LET dataLen == GetUint(d, o5)
      o6 == o5 + LenWidth
  IN
  IF ~DataFits(d, o6, dataLen) THEN Result(Err, r4) ELSE
  LET r5 == [r4 EXCEPT !.data = SubSeq(d, o6 + 1, o6 + dataLen)]
      flag == ByteAt(d, o6 + dataLen)
  IN
  IF flag = Panic THEN Result(Panic, r5)
  ELSE Result(Ok, [r5 EXCEPT !.moved = (flag = 1)])

-----------------------------------------------------------------------------
(***************************************************************************)
(* What the codec should satisfy, for one resource r or one byte string d. *)
(***************************************************************************)

\* Marshal never panics, and Unmarshal accepts what Marshal wrote and gives
\* back the id, the type name, the abilities, the data and the moved flag.
DecodesMarshalled(r) ==
    LET b == Marshal(r) IN
      /\ b # Panic
      /\ LET u == Unmarshal(b, Fresh) IN
           /\ u.err = Ok
           /\ \A f \in {"id", "name", "abilities", "data", "moved"} : u.res[f] = r[f]

\* Unmarshal of any byte string returns, with or without an error: its
\* bounds checks keep every read inside the input.
UnmarshalTotal(d) == Unmarshal(d, Fresh).err # Panic

\* The owner address survives a Marshal/Unmarshal round trip.
OwnerRoundTrips(r) == Unmarshal(Marshal(r), Fresh).res.owner = r.owner
=============================================================================
