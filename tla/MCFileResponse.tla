--------------------------- MODULE MCFileResponse ---------------------------
(* FileResponse with sizes below, at and around multiples of BSIZE. *)
EXTENDS FileResponse

SmallSizes == 0..7
Regular == {"missing", "file"}
OnlyDirectory == {"directory"}
=============================================================================
