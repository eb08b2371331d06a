---------------------------- MODULE MCRunOptions ----------------------------
(***************************************************************************)
(* RunOptions for TLC.  All options at once are too many configurations;   *)
(* each slice varies the options that meet in one part of the code and     *)
(* leaves the others fixed.                                                *)
(***************************************************************************)
EXTENDS RunOptions

\* Everything that decides about bounds and marks, for each target.
WatermarkSlice ==
  [mode : {"full", "incremental"}, strategy : {"watermark", "scn"},
   watermark_column : BOOLEAN, watermark_type : {"timestamp", "number"},
   overlap : 0..1, lower_bound_default : {"none", "time", "number"},
   bound_inclusive : {"auto", "true", "false"}, use_upper_bound : BOOLEAN,
   columns : {{"K", "WM"}}, exclude_columns : {{}}, filter : {FALSE},
   query_file : {FALSE}, binds : {{}}, row_limit : BOOLEAN,
   write_mode : {"merge", "append", "overwrite"}, merge_keys : BOOLEAN,
   merge_guard : {"watermark", "none"}, partition_column : {FALSE},
   num_partitions : {1}, null_check_keys : {TRUE}, bounds : {"auto"}]

\* Everything that refers to columns, and the parallel read.
ColumnSlice ==
  [mode : {"full", "incremental"}, strategy : {"watermark", "scn"},
   watermark_column : BOOLEAN, watermark_type : {"timestamp"},
   overlap : {0}, lower_bound_default : {"none"},
   bound_inclusive : {"auto"}, use_upper_bound : BOOLEAN,
   columns : {Star, {"K", "WM"}, {"K", "WM", "P"}, {"K", "P"}, {"X"}},
   exclude_columns : {{}, {"K"}, {"WM"}, {"P"}, {"X"}}, filter : {TRUE},
   query_file : {FALSE}, binds : {{}}, row_limit : {FALSE},
   write_mode : {"merge", "append"}, merge_keys : BOOLEAN,
   merge_guard : {"watermark", "none"}, partition_column : BOOLEAN,
   num_partitions : 1..2, null_check_keys : BOOLEAN,
   bounds : {"auto", "explicit", "unset"}]

\* Everything that meets in a custom query.
QuerySlice ==
  [mode : {"query", "incremental"}, strategy : {"watermark", "scn"},
   watermark_column : BOOLEAN, watermark_type : {"timestamp", "number"},
   overlap : 0..1, lower_bound_default : {"none", "time", "number"},
   bound_inclusive : {"auto"}, use_upper_bound : BOOLEAN,
   columns : {Star, {"K", "WM"}}, exclude_columns : {{}}, filter : BOOLEAN,
   query_file : BOOLEAN, binds : SUBSET {"lower", "upper"},
   row_limit : BOOLEAN, write_mode : {"merge", "append", "overwrite"},
   merge_keys : {TRUE}, merge_guard : {"watermark"},
   partition_column : {FALSE}, num_partitions : {1},
   null_check_keys : {TRUE}, bounds : {"auto"}]

MCConfigs == WatermarkSlice \cup ColumnSlice \cup QuerySlice
=============================================================================
