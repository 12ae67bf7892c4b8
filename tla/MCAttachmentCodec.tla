--------------------------- MODULE MCAttachmentCodec ---------------------------
(***************************************************************************)
(* A small instance of the attachment codec: bytes of 8 values (LEB128    *)
(* groups of 4), int64s of 2 bytes (-32..31), gids of 2 bytes.  The key    *)
(* names keep the shape of the real ones: "source_gid" and                 *)
(* "source_timestamp" start alike, here GidKey is a prefix of TsKey.       *)
(***************************************************************************)
EXTENDS AttachmentCodec

MCSeqKey == <<1, 2>>
MCTsKey == <<3, 5>>
MCGidKey == <<3>>

\* Sequence numbers 1 (the first), -1 (all ones) and 31 (the largest);
\* timestamps 0 and -32 (the smallest); a gid with a zero byte and an
\* all-ones gid.
MCAttachments ==
  [sequence_number : {1, -1, 31}, source_timestamp : {0, -32},
   source_gid : {<<0, 1>>, <<7, 7>>}]

=============================================================================
