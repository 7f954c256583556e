------------------------------ MODULE MCFormats ------------------------------
(***************************************************************************)
(* The byte formats, one at a time: the first state chooses the format     *)
(* whose steps are taken.                                                  *)
(***************************************************************************)
EXTENDS LogFormat, MCNanopb, SSTable, Coding, Checksum, Base64, Util

MCUserKey == {<<>>, <<0, 1>>, <<1>>, <<1, 2, 2>>}
MCBloomHash(u) == FoldLeft(LAMBDA a, d : (7 * a + 5 * d + 3) % 32, 1, u)
MCCodeSlice == {<<>>, <<1, 7, 3, 4, 5>>}

MCBucketLimit == <<1, 2, 4, 7>>

VARIABLE format
formatVars == <<format, logVars, nanopbVars, sstVars, codingVars, crcData, b64Vars, utilVars, layoutVars>>

FormatsInit ==
    /\ format \in {"log", "nanopb", "layout", "table", "coding", "crc", "base64", "util"}
    /\ LogInit /\ NanopbInit /\ SSTInit /\ CodingInit /\ CrcInit /\ B64Init /\ LayoutInit
    /\ IF format = "util" THEN UtilInit ELSE UtilStart("logger", 1)

FormatsNext ==
    /\ UNCHANGED format
    /\ \/ format = "log" /\ LogNext
       \/ format # "log" /\ UNCHANGED logVars
    /\ \/ format = "nanopb" /\ NanopbNext
       \/ format # "nanopb" /\ UNCHANGED nanopbVars
    /\ \/ format = "layout" /\ LayoutNext
       \/ format # "layout" /\ UNCHANGED layoutVars
    /\ \/ format = "table" /\ SSTNext
       \/ format # "table" /\ UNCHANGED sstVars
    /\ \/ format = "coding" /\ CodingNext
       \/ format # "coding" /\ UNCHANGED codingVars
    /\ \/ format = "crc" /\ CrcNext
       \/ format # "crc" /\ UNCHANGED crcData
    /\ \/ format = "base64" /\ B64Next
       \/ format # "base64" /\ UNCHANGED b64Vars
    /\ \/ format = "util" /\ UtilNext
       \/ format # "util" /\ UNCHANGED utilVars
FormatsSpec == FormatsInit /\ [][FormatsNext]_formatVars
=============================================================================
