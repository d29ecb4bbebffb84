------------------------------ MODULE AttCodec ------------------------------
(* The encoders and decoders of attrib/att.c, on bytes.  A PDU is a         *)
(* sequence of bytes, pdu[i] in C is p[i + 1] here; <<>> stands for the     *)
(* length 0 an encoder returns when it refuses, None for a decoder that     *)
(* refuses.  The behaviour around them is the shortest one: a message is    *)
(* encoded into a buffer, may lose its tail on the way, and is given to a   *)
(* decoder, the one for its kind or another one.                            *)
(*                                                                          *)
(* A buffer is at least as long as the fixed part of every PDU (it is the   *)
(* MTU of the bearer, 23 or more), so that "len - min_len" does not wrap.   *)
EXTENDS Integers, Sequences, SequencesExt

CONSTANTS
    Messages,   \* what is encoded: records with the field k, see Enc
    Buffers,    \* sizes of the buffers the encoders write into
    Room        \* size of the buffer dec_read_resp and dec_indication fill

ASSUME BufferAssumption == Buffers \subseteq {n \in Nat : n >= 23} /\ Room \in Nat

None == [k |-> "none"]

ATT_SIGNATURE_LEN == 12

\* Attribute Protocol Opcodes
ATT_OP ==
    [error |-> 1, mtu_req |-> 2, mtu_resp |-> 3, find_info_req |-> 4,
     find_info_resp |-> 5, find_by_type_req |-> 6, find_by_type_resp |-> 7,
     read_by_type_req |-> 8, read_by_type_resp |-> 9, read_req |-> 10,
     read_resp |-> 11, read_blob_req |-> 12, read_blob_resp |-> 13,
     read_by_group_req |-> 16, read_by_group_resp |-> 17, write_req |-> 18,
     write_resp |-> 19, write_cmd |-> 82, prep_write_req |-> 22,
     prep_write_resp |-> 23, exec_write_req |-> 24, exec_write_resp |-> 25,
     handle_notify |-> 27, handle_ind |-> 29, handle_cnf |-> 30,
     signed_write_cmd |-> 210]

-----------------------------------------------------------------------------
(* Bytes *)

put_le16(v) == <<v % 256, (v \div 256) % 256>>

get_le16(p, i) == p[i + 1] + 256 * p[i + 2]     \* get_le16(&pdu[i])

\* The bytes from offset i on.
From(p, i) == SubSeq(p, i + 1, Len(p))

\* The first n bytes of v, or all of them.
Cut(v, n) == SubSeq(v, 1, IF Len(v) > n THEN n ELSE Len(v))

\* A UUID is its type and its bytes, the most significant one first.
UUID_BITS == {16, 32, 128}

\* put_uuid_le: put_le16 or bswap_128, that is, the bytes backwards.
put_uuid_le(u) == Reverse(u.bytes)

get_uuid(type, bytes) == [type |-> type, bytes |-> Reverse(bytes)]

\* att_data_list: num entries of len bytes, 255 at most.
att_data_list_alloc(len, data) ==
    IF len > 255 THEN None ELSE [k |-> "list", len |-> len, data |-> data]

\* The loop that copies entries of l bytes while they fit.
CopyWhole(data, l, len) ==
    FlattenSeq([i \in 1..(IF Len(data) * l + 2 <= len THEN Len(data)
                          ELSE (len - 2) \div l) |-> Cut(data[i], l)])

\* The loop that takes num entries of elen bytes from offset 2 on.
Entries(p, num, elen) ==
    [i \in 1..num |-> SubSeq(p, 3 + (i - 1) * elen, 2 + i * elen)]

-----------------------------------------------------------------------------
(* Encoders *)

\* 5 bytes and a UUID of 16 or 128 bits.
RangeUuid(op, start, end, uuid) ==
    IF uuid.type \notin {16, 128} THEN <<>>
    ELSE <<op>> \o put_le16(start) \o put_le16(end) \o put_uuid_le(uuid)

enc_read_by_grp_req(start, end, uuid) ==
    RangeUuid(ATT_OP.read_by_group_req, start, end, uuid)

enc_read_by_type_req(start, end, uuid) ==
    RangeUuid(ATT_OP.read_by_type_req, start, end, uuid)

enc_read_by_grp_resp(list, len) ==
    IF len < list.len + 2 THEN <<>>
    ELSE <<ATT_OP.read_by_group_resp, list.len>>
         \o CopyWhole(list.data, list.len, len)

\* Mutant of enc_read_by_type_resp: the length is not that of the cut entry.
enc_read_by_type_resp_len(list, len) ==
    LET l == IF len - 2 < list.len THEN len - 2 ELSE list.len IN
    <<ATT_OP.read_by_type_resp, list.len>> \o CopyWhole(list.data, l, len)

\* An entry that does not fit is cut, and the length says so.
enc_read_by_type_resp(list, len) ==
    LET l == IF len - 2 < list.len THEN len - 2 ELSE list.len IN
    <<ATT_OP.read_by_type_resp, l>> \o CopyWhole(list.data, l, len)

enc_find_info_resp(format, list, len) ==
    IF len < list.len + 2 THEN <<>>
    ELSE <<ATT_OP.find_info_resp, format>>
         \o CopyWhole(list.data, list.len, len)

enc_find_by_type_req(start, end, uuid, value, len) ==
    IF uuid.type # 16 THEN <<>>
    ELSE <<ATT_OP.find_by_type_req>> \o put_le16(start) \o put_le16(end)
         \o put_uuid_le(uuid) \o Cut(value, len - 7)

enc_find_by_type_resp(matches, len) ==
    <<ATT_OP.find_by_type_resp>> \o
    FlattenSeq([i \in 1..(IF 4 * Len(matches) + 1 <= len THEN Len(matches)
                          ELSE (len - 1) \div 4) |->
                    put_le16(matches[i].start) \o put_le16(matches[i].end)])

enc_write_cmd(handle, value, len) ==
    <<ATT_OP.write_cmd>> \o put_le16(handle) \o Cut(value, len - 3)

\* bt_crypto_sign_att: twelve bytes that depend on what is signed, or failure.
bt_crypto_sign_att(crypto, pdu, cnt) ==
    IF crypto THEN [i \in 1..ATT_SIGNATURE_LEN |-> (Len(pdu) + cnt + i) % 256]
    ELSE <<>>

enc_signed_write_cmd(handle, value, crypto, cnt, len) ==
    LET head == <<ATT_OP.signed_write_cmd>> \o put_le16(handle)
                \o Cut(value, len - 3 - ATT_SIGNATURE_LEN)
        sign == bt_crypto_sign_att(crypto, head, cnt)
    IN IF sign = <<>> THEN <<>> ELSE head \o sign

enc_write_req(handle, value, len) ==
    <<ATT_OP.write_req>> \o put_le16(handle) \o Cut(value, len - 3)

enc_write_resp == <<ATT_OP.write_resp>>

enc_read_req(handle) == <<ATT_OP.read_req>> \o put_le16(handle)

enc_read_blob_req(handle, offset) ==
    <<ATT_OP.read_blob_req>> \o put_le16(handle) \o put_le16(offset)

\* "send only the octets that fit on the PDU"
enc_read_resp(value, len) == <<ATT_OP.read_resp>> \o Cut(value, len - 1)

enc_read_blob_resp(value, offset, len) ==
    <<ATT_OP.read_blob_resp>> \o Cut(From(value, offset), len - 1)

enc_error_resp(opcode, handle, status) ==
    <<ATT_OP.error, opcode>> \o put_le16(handle) \o <<status>>

enc_find_info_req(start, end) ==
    <<ATT_OP.find_info_req>> \o put_le16(start) \o put_le16(end)

\* What does not fit is refused, not cut.
enc_notification(handle, value, len) ==
    IF len < Len(value) + 3 THEN <<>>
    ELSE <<ATT_OP.handle_notify>> \o put_le16(handle) \o value

enc_indication(handle, value, len) ==
    IF len < Len(value) + 3 THEN <<>>
    ELSE <<ATT_OP.handle_ind>> \o put_le16(handle) \o value

enc_confirmation == <<ATT_OP.handle_cnf>>

enc_mtu_req(mtu) == <<ATT_OP.mtu_req>> \o put_le16(mtu)

enc_mtu_resp(mtu) == <<ATT_OP.mtu_resp>> \o put_le16(mtu)

enc_prep_write_req(handle, offset, value, len) ==
    <<ATT_OP.prep_write_req>> \o put_le16(handle) \o put_le16(offset)
    \o Cut(value, len - 5)

enc_prep_write_resp(handle, offset, value, len) ==
    <<ATT_OP.prep_write_resp>> \o put_le16(handle) \o put_le16(offset)
    \o Cut(value, len - 5)

enc_exec_write_req(flags) ==
    IF flags > 1 THEN <<>> ELSE <<ATT_OP.exec_write_req, flags>>

enc_exec_write_resp == <<ATT_OP.exec_write_resp>>

-----------------------------------------------------------------------------
(* Decoders *)

\* Mutant of RangeUuidOf: any even length will do.
RangeUuidOfAny(p, op) ==
    IF p[1] # op \/ Len(p) < 7 THEN None
    ELSE [k |-> "range_uuid", start |-> get_le16(p, 1), end |-> get_le16(p, 3),
          uuid |-> get_uuid(IF Len(p) = 7 THEN 16 ELSE 128, From(p, 5))]

\* A range and a UUID, whose type the length tells.
RangeUuidOf(p, op) ==
    IF p[1] # op \/ Len(p) \notin {7, 21} THEN None
    ELSE [k |-> "range_uuid", start |-> get_le16(p, 1), end |-> get_le16(p, 3),
          uuid |-> get_uuid(IF Len(p) = 7 THEN 16 ELSE 128, From(p, 5))]

dec_read_by_grp_req(p) == RangeUuidOf(p, ATT_OP.read_by_group_req)

dec_read_by_type_req(p) == RangeUuidOf(p, ATT_OP.read_by_type_req)

\* An Attribute Data List of at least one entry, and no incomplete one.
ListOf(p, op, min, minEntry) ==
    IF p[1] # op \/ Len(p) < min THEN None
    ELSE IF p[2] < minEntry \/ (Len(p) - 2) % p[2] # 0 THEN None
    ELSE att_data_list_alloc(p[2], Entries(p, (Len(p) - 2) \div p[2], p[2]))

dec_read_by_grp_resp(p) == ListOf(p, ATT_OP.read_by_group_resp, 7, 5)

dec_read_by_type_resp(p) == ListOf(p, ATT_OP.read_by_type_resp, 5, 3)

\* The format tells the length of an entry; what is left over is ignored.  It
\* is read, and 2 taken from the length, without a look at the length.
dec_find_info_resp(p) ==
    LET elen == 2 + (CASE p[2] = 1 -> 2 [] p[2] = 2 -> 16 [] OTHER -> 0) IN
    IF p[1] # ATT_OP.find_info_resp THEN None
    ELSE [k |-> "info", format |-> p[2],
          list |-> att_data_list_alloc(elen,
                       Entries(p, (Len(p) - 2) \div elen, elen))]

dec_find_by_type_req(p) ==
    IF Len(p) < 7 \/ p[1] # ATT_OP.find_by_type_req THEN None
    ELSE [k |-> "find", start |-> get_le16(p, 1), end |-> get_le16(p, 3),
          uuid |-> get_uuid(16, SubSeq(p, 6, 7)), value |-> From(p, 7)]

\* Mutant of dec_find_by_type_resp: the opcode is not looked at.
dec_find_by_type_resp_any(p) ==
    IF Len(p) < 5 \/ (Len(p) - 1) % 4 # 0 THEN None
    ELSE [k |-> "matches",
          matches |-> [i \in 1..((Len(p) - 1) \div 4) |->
                          [start |-> get_le16(p, 4 * i - 3),
                           end |-> get_le16(p, 4 * i - 1)]]]

dec_find_by_type_resp(p) ==
    IF Len(p) < 5 \/ p[1] # ATT_OP.find_by_type_resp \/ (Len(p) - 1) % 4 # 0
    THEN None
    ELSE [k |-> "matches",
          matches |-> [i \in 1..((Len(p) - 1) \div 4) |->
                          [start |-> get_le16(p, 4 * i - 3),
                           end |-> get_le16(p, 4 * i - 1)]]]

dec_write_cmd(p) ==
    IF Len(p) < 3 \/ p[1] # ATT_OP.write_cmd THEN None
    ELSE [k |-> "write", handle |-> get_le16(p, 1), value |-> From(p, 3)]

dec_signed_write_cmd(p) ==
    LET vlen == Len(p) - 3 - ATT_SIGNATURE_LEN IN
    IF vlen < 0 \/ p[1] # ATT_OP.signed_write_cmd THEN None
    ELSE [k |-> "signed", handle |-> get_le16(p, 1),
          value |-> SubSeq(p, 4, 3 + vlen), signature |-> From(p, 3 + vlen)]

dec_write_req(p) ==
    IF Len(p) < 3 \/ p[1] # ATT_OP.write_req THEN None
    ELSE [k |-> "write", handle |-> get_le16(p, 1), value |-> From(p, 3)]

dec_write_resp(p) ==
    IF p[1] # ATT_OP.write_resp THEN None ELSE [k |-> "ack"]

dec_read_req(p) ==
    IF Len(p) < 3 \/ p[1] # ATT_OP.read_req THEN None
    ELSE [k |-> "read", handle |-> get_le16(p, 1)]

dec_read_blob_req(p) ==
    IF Len(p) < 5 \/ p[1] # ATT_OP.read_blob_req THEN None
    ELSE [k |-> "blob", handle |-> get_le16(p, 1), offset |-> get_le16(p, 3)]

\* Refuses a value the caller has no room for.
dec_read_resp(p, vlen) ==
    IF p[1] # ATT_OP.read_resp \/ vlen < Len(p) - 1 THEN None
    ELSE [k |-> "value", value |-> From(p, 1)]

dec_find_info_req(p) ==
    IF Len(p) < 5 \/ p[1] # ATT_OP.find_info_req THEN None
    ELSE [k |-> "range", start |-> get_le16(p, 1), end |-> get_le16(p, 3)]

\* Cuts a value the caller has no room for.  It returns the length of the
\* value, so that an empty one is refused like a PDU that is no indication.
dec_indication(p, vlen) ==
    LET value == Cut(From(p, 3), vlen) IN
    IF p[1] # ATT_OP.handle_ind \/ Len(p) < 3 \/ value = <<>> THEN None
    ELSE [k |-> "write", handle |-> get_le16(p, 1), value |-> value]

dec_mtu_req(p) ==
    IF Len(p) < 3 \/ p[1] # ATT_OP.mtu_req THEN None
    ELSE [k |-> "mtu", mtu |-> get_le16(p, 1)]

dec_mtu_resp(p) ==
    IF Len(p) < 3 \/ p[1] # ATT_OP.mtu_resp THEN None
    ELSE [k |-> "mtu", mtu |-> get_le16(p, 1)]

dec_prep_write_req(p) ==
    IF Len(p) < 5 \/ p[1] # ATT_OP.prep_write_req THEN None
    ELSE [k |-> "prep", handle |-> get_le16(p, 1), offset |-> get_le16(p, 3),
          value |-> From(p, 5)]

\* It compares the opcode with that of the request.
dec_prep_write_resp(p) ==
    IF Len(p) < 5 \/ p[1] # ATT_OP.prep_write_req THEN None
    ELSE [k |-> "prep", handle |-> get_le16(p, 1), offset |-> get_le16(p, 3),
          value |-> From(p, 5)]

dec_exec_write_req(p) ==
    IF Len(p) < 2 \/ p[1] # ATT_OP.exec_write_req THEN None
    ELSE [k |-> "exec", flags |-> p[2]]

dec_exec_write_resp(p) ==
    IF Len(p) < 1 \/ p[1] # ATT_OP.exec_write_resp THEN None ELSE [k |-> "ack"]

-----------------------------------------------------------------------------
(* Messages: the arguments of an encoder, k naming it *)

Enc(m, len) ==
    CASE m.k = "read_by_group_req" -> enc_read_by_grp_req(m.start, m.end, m.uuid)
      [] m.k = "read_by_type_req" -> enc_read_by_type_req(m.start, m.end, m.uuid)
      [] m.k = "read_by_group_resp" -> enc_read_by_grp_resp(m.list, len)
      [] m.k = "read_by_type_resp" -> enc_read_by_type_resp(m.list, len)
      [] m.k = "find_info_resp" -> enc_find_info_resp(m.format, m.list, len)
      [] m.k = "find_by_type_req" ->
             enc_find_by_type_req(m.start, m.end, m.uuid, m.value, len)
      [] m.k = "find_by_type_resp" -> enc_find_by_type_resp(m.matches, len)
      [] m.k = "write_cmd" -> enc_write_cmd(m.handle, m.value, len)
      [] m.k = "signed_write_cmd" ->
             enc_signed_write_cmd(m.handle, m.value, m.crypto, m.cnt, len)
      [] m.k = "write_req" -> enc_write_req(m.handle, m.value, len)
      [] m.k = "write_resp" -> enc_write_resp
      [] m.k = "read_req" -> enc_read_req(m.handle)
      [] m.k = "read_blob_req" -> enc_read_blob_req(m.handle, m.offset)
      [] m.k = "read_resp" -> enc_read_resp(m.value, len)
      [] m.k = "read_blob_resp" -> enc_read_blob_resp(m.value, m.offset, len)
      [] m.k = "error" -> enc_error_resp(m.opcode, m.handle, m.status)
      [] m.k = "find_info_req" -> enc_find_info_req(m.start, m.end)
      [] m.k = "handle_notify" -> enc_notification(m.handle, m.value, len)
      [] m.k = "handle_ind" -> enc_indication(m.handle, m.value, len)
      [] m.k = "handle_cnf" -> enc_confirmation
      [] m.k = "mtu_req" -> enc_mtu_req(m.mtu)
      [] m.k = "mtu_resp" -> enc_mtu_resp(m.mtu)
      [] m.k = "prep_write_req" ->
             enc_prep_write_req(m.handle, m.offset, m.value, len)
      [] m.k = "prep_write_resp" ->
             enc_prep_write_resp(m.handle, m.offset, m.value, len)
      [] m.k = "exec_write_req" -> enc_exec_write_req(m.flags)
      [] m.k = "exec_write_resp" -> enc_exec_write_resp

\* The kinds that have a decoder.
Decoded == (DOMAIN ATT_OP) \ {"error", "read_blob_resp", "handle_notify",
                              "handle_cnf"}

Dec(k, p) ==
    CASE k = "read_by_group_req"  -> dec_read_by_grp_req(p)
      [] k = "read_by_type_req"   -> dec_read_by_type_req(p)
      [] k = "read_by_group_resp" -> dec_read_by_grp_resp(p)
      [] k = "read_by_type_resp"  -> dec_read_by_type_resp(p)
      [] k = "find_info_resp"     -> dec_find_info_resp(p)
      [] k = "find_by_type_req"   -> dec_find_by_type_req(p)
      [] k = "find_by_type_resp"  -> dec_find_by_type_resp(p)
      [] k = "write_cmd"          -> dec_write_cmd(p)
      [] k = "signed_write_cmd"   -> dec_signed_write_cmd(p)
      [] k = "write_req"          -> dec_write_req(p)
      [] k = "write_resp"         -> dec_write_resp(p)
      [] k = "read_req"           -> dec_read_req(p)
      [] k = "read_blob_req"      -> dec_read_blob_req(p)
      [] k = "read_resp"          -> dec_read_resp(p, Room)
      [] k = "find_info_req"      -> dec_find_info_req(p)
      [] k = "handle_ind"         -> dec_indication(p, Room)
      [] k = "mtu_req"            -> dec_mtu_req(p)
      [] k = "mtu_resp"           -> dec_mtu_resp(p)
      [] k = "prep_write_req"     -> dec_prep_write_req(p)
      [] k = "prep_write_resp"    -> dec_prep_write_resp(p)
      [] k = "exec_write_req"     -> dec_exec_write_req(p)
      [] k = "exec_write_resp"    -> dec_exec_write_resp(p)

VARIABLES
    msg,   \* what is encoded
    buf,   \* the size of the buffer
    pdu,   \* the PDU
    cut,   \* the PDU has lost its tail
    as,    \* the decoder it was given to, "none" before
    got    \* what that decoder returned

vars == <<msg, buf, pdu, cut, as, got>>

Init ==
    /\ msg \in Messages /\ buf \in Buffers
    /\ pdu = <<>> /\ cut = FALSE
    /\ as = "none" /\ got = None

Encode ==
    /\ pdu = <<>>
    /\ Enc(msg, buf) # <<>>
    /\ pdu' = Enc(msg, buf)
    /\ UNCHANGED <<msg, buf, cut, as, got>>

\* The receiver reads only the first n bytes: its buffer is its own MTU.
Lose(n) ==
    /\ as = "none" /\ ~cut
    /\ pdu' = SubSeq(pdu, 1, n)
    /\ cut' = TRUE
    /\ UNCHANGED <<msg, buf, as, got>>

\* dec_find_info_resp must not be given a PDU that is only an opcode.
Decode(k) ==
    /\ as = "none" /\ pdu # <<>>
    /\ k = "find_info_resp" => Len(pdu) >= 2
    /\ as' = k
    /\ got' = Dec(k, pdu)
    /\ UNCHANGED <<msg, buf, pdu, cut>>

Next == Encode \/ (\E n \in 1..(Len(pdu) - 1) : Lose(n)) \/ (\E k \in Decoded : Decode(k))

Spec == Init /\ [][Next]_vars

-----------------------------------------------------------------------------
(* Properties *)

\* Every byte string a list decoder returns is a whole entry of the sender's.
PrefixOfEntries(es, data) ==
    Len(es) <= Len(data) /\ \A i \in 1..Len(es) : es[i] = data[i]

\* What a receiver may make of message m if it accepts it at all: the fixed
\* part as it was sent, the variable part as a prefix of what was sent.
Agrees(m, g) ==
    /\ \A f \in (DOMAIN g \cap DOMAIN m) \ {"k", "value", "list", "matches"} :
           g[f] = m[f]
    /\ g.k \in {"find", "write", "signed", "value", "prep"} =>
           IsPrefix(g.value, m.value)
    /\ g.k = "matches" => PrefixOfEntries(g.matches, m.matches)
    /\ g.k = "info" => PrefixOfEntries(g.list.data, m.list.data)
    /\ g.k = "list" =>
           \/ g.len = m.list.len /\ PrefixOfEntries(g.data, m.list.data)
           \/ g.len = buf - 2 /\ g.data = <<Cut(m.list.data[1], buf - 2)>>

\* A decoder takes only PDUs of its own kind.  The one exception is
\* dec_prep_write_resp, which takes the request for the response (and so
\* refuses every response).
OwnKindOnly ==
    as \notin {"none", msg.k} /\ got # None
        => as = "prep_write_resp" /\ msg.k = "prep_write_req"

\* The signature that was made for the message, and whether that is the one the
\* decoder of signed writes returned.
SignatureSent == LET p == Enc(msg, buf) IN From(p, Len(p) - ATT_SIGNATURE_LEN)
SignatureKept == got.k = "signed" => got.signature = SignatureSent

\* What a decoder returns is what the encoder was given, shortened at most:
\* also when the buffer was too small for it or the tail was lost, and then
\* in whole entries.  Two things are misread, both only when a tail was lost:
\* a request by 128-bit UUID that is cut to 7 bytes passes for one by 16-bit
\* UUID, and a signed write that is cut passes the end of its value and the
\* rest of its signature for a signature (att.c:607-615); the handle and what
\* is left of the value are right all the same.
NeverMisread ==
    as = msg.k /\ got # None =>
        /\ Agrees(msg, got) \/ (cut /\ got.k = "range_uuid" /\ Len(pdu) = 7)
        /\ SignatureKept \/ cut

\* Message m with what decoder result g says of it.
Merge(m, g) ==
    [f \in DOMAIN m |-> IF f = "list" /\ g.k = "list" THEN [len |-> g.len, data |-> g.data]
                        ELSE IF f \in DOMAIN g \ {"k"} THEN g[f] ELSE m[f]]

\* A PDU that arrives whole is understood by the decoder for its kind, and
\* what it returns, encoded again, is the same PDU: no byte of it is lost, and
\* a signature is returned as it was made.
\* (But for dec_prep_write_resp; for a caller without room for the value: then
\* dec_read_resp refuses it and dec_indication cuts it; and for an indication
\* with an empty value, which dec_indication cannot tell from a refused one.)
RoundTrip ==
    as = msg.k /\ ~cut /\ as # "prep_write_resp"
        => \/ got # None /\ Enc(Merge(msg, got), buf) = pdu /\ SignatureKept
           \/ as = "read_resp" /\ Len(pdu) - 1 > Room /\ got = None
           \/ /\ as = "handle_ind" /\ Len(pdu) - 3 > Room /\ got # None
              /\ Len(got.value) = Room
           \/ as = "handle_ind" /\ msg.value = <<>> /\ got = None
=============================================================================
