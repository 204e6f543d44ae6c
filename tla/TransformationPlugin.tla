------------------------ MODULE TransformationPlugin ------------------------
(***************************************************************************)
(* The part of the transformation framework that every transformation      *)
(* plugin includes as a template: it creates and deletes the plugin, keeps *)
(* the list of its transformations, and builds a transformation from four  *)
(* pieces that may each fail - its state, its configuration, its parent    *)
(* (output type, read buffer, lock) and its entry in the list.             *)
(*                                                                         *)
(* The template can be built with mutexes or without.  Without them        *)
(* Routing Service creates one transformation of a plugin at a time.       *)
(***************************************************************************)
EXTENDS Naturals, Sequences, FiniteSets, SequencesExt

CONSTANTS
  Transformations,  (* objects that may be created                         *)
  NoOne             (* holds no lock                                       *)

ASSUME NoOneAssumption == NoOne \notin Transformations

VARIABLES
  use_mutex,   (* RTI_TSFM_USE_MUTEX                                       *)
  plugin,      (* "none", "alive", "gone"                                  *)
  user_plugin, (* the record of its functions: "none", "owned", "freed",   *)
               (* "freed twice"                                            *)
  plugin_lock, (* who creates or deletes with the lock of the plugin       *)
  transforms,  (* the list of the plugin                                   *)
  stage,       (* of a transformation: "none", "made", "live", "lost" when *)
               (* its deletion was refused, "gone"                         *)
  length_read, (* the length of the list, read before an entry is added    *)
  pieces,      (* what a transformation holds                              *)
  types_refused(* history: transformations whose types were not accepted   *)

pluginVars == <<use_mutex, plugin, user_plugin, plugin_lock, transforms, stage,
                length_read, pieces, types_refused>>

AllPieces == {"state", "config", "parent"}

PluginInit ==
  /\ use_mutex \in BOOLEAN
  /\ plugin = "none" /\ user_plugin = "none"
  /\ plugin_lock = NoOne
  /\ transforms = <<>>
  /\ stage = [t \in Transformations |-> "none"]
  /\ length_read = [t \in Transformations |-> 0]
  /\ pieces = [t \in Transformations |-> {}]
  /\ types_refused = {}

-----------------------------------------------------------------------------
(* A parent that fails frees the functions, and so does TPlugin_new, unless*)
(* the failure was that of the lock.                                       *)
TPlugin_new(fails) ==
  /\ plugin = "none"
  /\ fails = "lock" => use_mutex
  /\ plugin' = IF fails = "nothing" THEN "alive" ELSE "gone"
  /\ user_plugin' = CASE fails = "nothing" -> "owned"
                      [] fails = "functions" -> "none"
                      [] fails = "lock" -> "freed"
                      [] fails = "parent" -> "freed twice"
  /\ UNCHANGED <<use_mutex, plugin_lock, transforms, stage, length_read, pieces, types_refused>>

(* The list is never deleted with entries: then the functions stay. *)
TPlugin_delete ==
  /\ plugin = "alive"
  /\ \A t \in Transformations : stage[t] \in {"none", "gone", "lost"}
  /\ plugin' = "gone"
  /\ user_plugin' = IF transforms = <<>> THEN "freed" ELSE user_plugin
  /\ UNCHANGED <<use_mutex, plugin_lock, transforms, stage, length_read, pieces, types_refused>>

(* The lock of the plugin, taken and given back. *)
LockedOut(t) == IF use_mutex THEN plugin_lock = NoOne
                             ELSE \A u \in Transformations : stage[u] # "made"
Holder(t) == IF use_mutex THEN t ELSE NoOne

(* T_new: what was built before a failure is released, except that the     *)
(* parent of a transformation of flat types stays when its types are not   *)
(* accepted.                                                               *)
Released(fails) == IF fails = "types" THEN {"parent"} ELSE {}

T_new(t, fails) ==
  /\ plugin = "alive"
  /\ stage[t] = "none"
  /\ LockedOut(t)
  /\ IF fails = "nothing"
     THEN /\ stage' = [stage EXCEPT ![t] = "made"]
          /\ pieces' = [pieces EXCEPT ![t] = AllPieces]
          /\ length_read' = [length_read EXCEPT ![t] = Len(transforms)]
          /\ plugin_lock' = Holder(t)
          /\ UNCHANGED types_refused
     ELSE /\ stage' = [stage EXCEPT ![t] = "gone"]
          /\ pieces' = [pieces EXCEPT ![t] = Released(fails)]
          /\ types_refused' = IF fails = "types" THEN types_refused \cup {t} ELSE types_refused
          /\ UNCHANGED <<length_read, plugin_lock>>
  /\ UNCHANGED <<use_mutex, plugin, user_plugin, transforms>>

(* T_delete *)
AllButParent == {"state", "config"}
Freed == AllPieces
Deleted(t) == pieces' = [pieces EXCEPT ![t] = @ \ Freed]

(* initialize_transformation: one more entry, with the length read before. *)
Registered(t) == Append(SubSeq(transforms, 1, length_read[t]), t)

initialize_transformation(t, fails) ==
  /\ stage[t] = "made"
  /\ IF fails
     THEN /\ Deleted(t)
          /\ stage' = [stage EXCEPT ![t] = "gone"]
          /\ UNCHANGED transforms
     ELSE /\ transforms' = Registered(t)
          /\ stage' = [stage EXCEPT ![t] = "live"]
          /\ UNCHANGED pieces
  /\ plugin_lock' = NoOne
  /\ UNCHANGED <<use_mutex, plugin, user_plugin, length_read, types_refused>>

(* finalize_transformation: the entries behind the removed one move up. *)
LastRemoved(t) == Front(transforms)
WithoutEntry(t) == RemoveFirst(transforms, t)

delete_transformation(t) ==
  /\ plugin = "alive"
  /\ stage[t] = "live"
  /\ LockedOut(t)
  /\ IF Contains(transforms, t)
     THEN /\ transforms' = WithoutEntry(t)
          /\ Deleted(t)
          /\ stage' = [stage EXCEPT ![t] = "gone"]
     ELSE /\ stage' = [stage EXCEPT ![t] = "lost"]
          /\ UNCHANGED <<transforms, pieces>>
  /\ UNCHANGED <<use_mutex, plugin, user_plugin, plugin_lock, length_read, types_refused>>

PluginStep ==
  \/ \E fails \in {"nothing", "functions", "lock", "parent"} : TPlugin_new(fails)
  \/ TPlugin_delete
  \/ \E t \in Transformations :
       \/ \E fails \in {"nothing", "state", "config", "properties", "parent", "types"} :
            T_new(t, fails)
       \/ \E fails \in BOOLEAN : initialize_transformation(t, fails)

-----------------------------------------------------------------------------
Live == {t \in Transformations : stage[t] = "live"}

(* The list of the plugin has every live transformation once and no other, *)
(* whatever was created at once, failed or was deleted in any order: no    *)
(* deletion is refused, and the plugin is never deleted with an entry that *)
(* points to freed memory.                                                 *)
ListIsLive ==
  /\ ToSet(transforms) = Live
  /\ IsInjective(transforms)
  /\ \A t \in Transformations : stage[t] # "lost"

(* When the plugin is gone, what is left of its transformations is the     *)
(* parent of each one whose types were not accepted, and nothing else; the *)
(* functions of the plugin are freed, twice if its own parent failed.      *)
LeftBehind ==
  /\ plugin = "gone" => user_plugin # "owned"
  /\ \A t \in Transformations :
       pieces[t] = CASE stage[t] \in {"made", "live"} -> AllPieces
                     [] t \in types_refused -> {"parent"}
                     [] OTHER -> {}
=============================================================================
