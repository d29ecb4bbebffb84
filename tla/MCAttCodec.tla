----------------------------- MODULE MCAttCodec -----------------------------
(* An instance of AttCodec for TLC: messages of every kind, with values and *)
(* lists that are empty, fill the buffer exactly, and exceed it by one.     *)
EXTENDS AttCodec, TLC

CONSTANTS Handles, Lengths

Bytes(n, b) == [i \in 1..n |-> (b + 7 * i) % 256]

Values == {Bytes(n, 1) : n \in Lengths}

Uuids == {[type |-> t, bytes |-> Bytes(t \div 8, 9)] : t \in UUID_BITS}

\* Entries of n bytes.
Lists(ns) == {[len |-> n, data |-> [i \in 1..j |-> Bytes(n, 40 * i)]] :
                  n \in ns, j \in 1..6}

Matches == {[i \in 1..j |-> [start |-> 255 + i, end |-> 600 * i]] : j \in 1..6}

MCMessages ==
    [k : {"read_by_group_req", "read_by_type_req"}, start : Handles,
     end : Handles, uuid : Uuids]
    \cup [k : {"read_by_group_resp"}, list : Lists({5, 7, 21, 22})]
    \cup [k : {"read_by_type_resp"}, list : Lists({3, 7, 21, 22, 25})]
    \cup [k : {"find_info_resp"}, format : {1}, list : Lists({4})]
    \cup [k : {"find_info_resp"}, format : {2}, list : Lists({18})]
    \cup [k : {"find_by_type_req"}, start : Handles, end : Handles,
          uuid : Uuids, value : Values]
    \cup [k : {"find_by_type_resp"}, matches : Matches]
    \cup [k : {"write_cmd", "write_req", "handle_notify", "handle_ind"},
          handle : Handles, value : Values]
    \cup [k : {"signed_write_cmd"}, handle : Handles, value : Values,
          crypto : BOOLEAN, cnt : {0, 250}]
    \cup [k : {"write_resp", "handle_cnf", "exec_write_resp"}]
    \cup [k : {"read_req"}, handle : Handles]
    \cup [k : {"read_blob_req"}, handle : Handles, offset : Handles]
    \cup [k : {"read_resp"}, value : Values]
    \cup [k : {"read_blob_resp"}, value : {Bytes(25, 1)}, offset : {0, 1, 25}]
    \cup [k : {"error"}, opcode : {10}, handle : Handles, status : {1}]
    \cup [k : {"find_info_req"}, start : Handles, end : Handles]
    \cup [k : {"mtu_req", "mtu_resp"}, mtu : Handles]
    \cup [k : {"prep_write_req", "prep_write_resp"}, handle : Handles,
          offset : Handles, value : Values]
    \cup [k : {"exec_write_req"}, flags : 0..2]
=============================================================================
