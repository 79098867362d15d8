----------------------------- MODULE MCConfiguration -----------------------------
(* Files for TLC: of several versions, each with the settings of its       *)
(* schema.                                                                 *)
EXTENDS Configuration

(* Every setting is the user's, or left to the default.                    *)
Of(v, x) ==
  [version |-> v, empty |-> {},
   value |-> [k \in Keys |-> IF k \notin Schema(v) THEN "none"
                             ELSE IF k = "path" /\ x = "user" /\ v < 21 THEN "file" ELSE x]]

(* A section without anything in it has none of its settings.              *)
Without(c, section, keys) ==
  [c EXCEPT !.empty = {section}, !.value = [k \in Keys |-> IF k \in keys THEN "none" ELSE @[k]]]

MCHand ==
  {Of(v, "user") : v \in {1, 6, 13, 19, 25}}
  \cup {[Of(25, "user") EXCEPT !.version = 0],
        [Of(25, "user") EXCEPT !.value["path"] = "null"],
        [Of(19, "user") EXCEPT !.value["hook_timeout_secs"] = "small"],
        Without(Of(6, "default"), "index_site", {"ignore_list"}),
        Without(Of(6, "user"), "filters", {"good_list", "bad_list"})}

(* The files for which CarriedOver is proved.                              *)
ASSUME HandsFit == \A c \in MCHand : FitsSchema(c)
=============================================================================
