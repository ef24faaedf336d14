--------------------------- MODULE SensitiveData ----------------------------
(***************************************************************************)
(* mixin_sensitivity: services/classify/classify_objects.py, which reads   *)
(* the classes of a dataclass's fields, and repr/_objects.py, which masks  *)
(* classified fields when an instance is printed.  Both look at the same   *)
(* metadata, each in its own way.  Nothing here has a state.               *)
(*                                                                         *)
(* A class is a record.  dataclass: it is decorated.  shadowed: it has a   *)
(* __repr__ of its own, generated (repr=False left out) or written by      *)
(* hand.  post_init: it has none and inherits the guard, or its own one    *)
(* calls the guard, or does not.  fields: their names and markers.         *)
(***************************************************************************)
EXTENDS Sequences, SequencesExt

CONSTANTS Kinds,      \* Sensitivity: PHI, PII, PCI, SECRET
          FieldNames,
          NoMarker,   \* no "sensitivity" in the metadata of the field
          NoKind,     \* None, for a field without a class
          MaskedRepr  \* ERR_SENSITIVE_MASKED_REPR

\* a member of Sensitivity, or the plain string that is its value, or something
\* that is neither
Marker == [member : BOOLEAN, kind : Kinds \cup {NoKind}]

Field == [name : FieldNames, marker : Marker \cup {NoMarker}]

Class ==
  {class \in [dataclass : BOOLEAN, shadowed : BOOLEAN,
              post_init : {"inherited", "calls", "own"}, fields : Seq(Field)] :
     \A i, j \in DOMAIN class.fields :
       class.fields[i].name = class.fields[j].name => i = j}

ASSUME KindAssumption == NoKind \notin Kinds /\ NoMarker \notin Marker

-----------------------------------------------------------------------------
(* SensitivityProfile                                                      *)

\* fields() refuses what is not a dataclass, and Sensitivity() what it does not
\* know; a plain string that is the value of a member is one of the taxonomy
HasProfile(class) ==
  /\ class.dataclass
  /\ \A f \in Range(class.fields) : f.marker # NoMarker => f.marker.kind \in Kinds

\* from_dataclass: the classified fields and their classes (in the order of the
\* fields, which decides nothing, since a class has each name once)
FromDataclass(class) ==
  {[name |-> f.name, kind |-> f.marker.kind] :
     f \in {g \in Range(class.fields) : g.marker # NoMarker}}

\* sensitivity_of
SensitivityOf(profile, name) ==
  IF \E p \in profile : p.name = name
  THEN (CHOOSE p \in profile : p.name = name).kind ELSE NoKind

-----------------------------------------------------------------------------
(* SensitiveRepr                                                           *)

\* seeded bug: the guard does not look at where __repr__ comes from
ConstructsAnyway(class) == TRUE

\* the __post_init__ guard does not raise SensitiveDeclarationError; it runs only
\* where the generated __init__ gets to it
Constructs(class) ==
  ~(class.dataclass /\ class.shadowed /\ class.post_init # "own")

\* __repr__ masks the fields marked with a member of the enumeration.  A class's
\* own __repr__ masks none, and without the decorator no field is shown at all.
Masks(class, f) == /\ ~class.shadowed
                   /\ f.marker # NoMarker /\ f.marker.member

\* what printing an instance, a class and the values of its fields, shows
Shown(object) ==
  IF ~object.class.dataclass /\ ~object.class.shadowed THEN <<>>
  ELSE [i \in DOMAIN object.class.fields |->
          IF Masks(object.class, object.class.fields[i])
          THEN MaskedRepr ELSE object.values[i]]
=============================================================================
