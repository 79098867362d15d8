------------------------------- MODULE MCRunOnce -------------------------------
(* Instances of RunOnce for TLC: releases that differ in every feature the *)
(* comparisons look at, two of them worth the same, and a file of the      *)
(* user's without a resolution in its name.                                *)
EXTENDS RunOnce

CONSTANTS web, disc, twin, remux, uhd, cut, plain

Name(tokens, resolution, preferred, edition) ==
  [tokens |-> tokens, resolution |-> resolution, preferred |-> preferred, edition |-> edition]

MCFeatures ==
  [r \in Releases |->
     CASE r = web   -> Name({"1080p", "webdl"}, 1080, FALSE, {})
       [] r = disc  -> Name({"1080p", "bluray", "dts"}, 1080, FALSE, {})
       [] r = twin  -> Name({"1080p", "webdl", "dts"}, 1080, TRUE, {})
       [] r = remux -> Name({"1080p", "remux", "dtshd"}, 1080, FALSE, {})
       [] r = uhd   -> Name({"2160p", "bluray", "hdr"}, 2160, FALSE, {})
       [] r = cut   -> Name({"2160p", "bluray"}, 2160, FALSE, {"extended"})
       [] OTHER     -> Name({"bluray"}, 0, FALSE, {})]
=============================================================================
