-------------------------- MODULE MCConfigResolver --------------------------
(* Module ConfigResolver for TLC: fragments of configuration files.        *)
EXTENDS ConfigResolver

Plain(part) == Text({part}, {})
Refers(part, path) == Text({part}, {path})
Entry(column, attribute, part) ==
  Mapping("column" :> Plain(column) @@ attribute :> Plain(part))

\* What quality.expectations may hold.
Expectations ==
  {List(<<Entry("A", "rule", "r1"), Entry("B", "rule", "r1")>>),
   AppendList(<<Entry("A", "action", "warn")>>),
   AppendList(<<Plain("C")>>),
   MergeByList(<<Entry("A", "action", "fail"), Entry("C", "rule", "r2")>>),
   MergeByList(<<Entry("C", "action", "warn"), Entry("A", "rule", "r3"),
                 Entry("C", "rule", "r4")>>),
   Null}

QualityLayers ==
  {Mapping("quality" :> Mapping("expectations" :> v)) : v \in Expectations}
  \cup {Mapping("quality" :> v) :
           v \in {Null, Mapping("level" :> Plain("l")),
                  AppendList(<<Plain("C")>>)}}

\* What the table and target blocks may hold.
TableLayers ==
  {Mapping("table" :> Mapping("source_object" :> Refers("CUST", <<"Owner">>))),
   Mapping("table" :> Mapping("source_object" :> Refers("CUST", <<"table">>)
                              @@ "business_key" :> List(<<Refers("id", <<"env">>)>>))),
   Mapping("table" :> Mapping("domain" :> Plain("other"))),
   Mapping("Owner" :> Plain("o")),
   Mapping("target" :> Null),
   Mapping("target" :> Mapping("write_mode" :> Plain("merge"))),
   Mapping("target" :> Mapping("merge_keys" :> AppendList(<<Plain("k")>>))),
   Mapping("target" :> Mapping("table_name" :> Refers("t", <<"catalog">>)))}

\* Texts that refer to each other.
TextLayers ==
  {Mapping("catalog" :> Refers("c", <<"env">>)),
   Mapping("catalog" :> Refers("c", <<"schema">>)),
   Mapping("schema" :> Refers("s", <<"target", "table_name">>)),
   Mapping("schema" :> Refers("s", <<"quality">>)),
   Mapping("schema" :> Plain("s"))}

MCLayers == QualityLayers \cup TableLayers \cup TextLayers

\* The layers are what module Overlay asks for.
ASSUME FlatLayersAreProper == Layering!ProperLayers

MCLowerCase == "CUST" :> "cust" @@ "Owner" :> "owner"
=============================================================================
