--------------------------- MODULE MCLogPipeline ----------------------------
(***************************************************************************)
(* LogPipeline for TLC: the loggers of a class that adopts the mixin and   *)
(* of the ambient client, used through them and directly, in two threads.  *)
(* A client may send '-buffered-' as its id, and an application may have   *)
(* the filters mask ids.  What callers pass with a record are              *)
(* names with and without a sensitive pattern in them, an id of their own, *)
(* a name that LogRecord reserves, and an object of a class that adopts    *)
(* SensitiveRepr rightly.  One of a class that does not cannot be made.    *)
(***************************************************************************)
EXTENDS LogPipeline, TLC

CONSTANTS ServiceLogger,
          UserPassword, Token_, Message, Patient, Password, Token,
          IdPattern, Name, Ssn, Phi, Secret, Plain, Forged

MCLoggers == {ServiceLogger, AmbientLogger}
MCReserved == {Message}
\* the default patterns, and those of an application to which an id is sensitive
MCPatternSets == {{Password, Token}, {IdPattern}}
MCPatternsIn(name) == CASE name = UserPassword -> {Password}
                        [] name = Token_       -> {Token}
                        [] name = Correlation  -> {IdPattern}
                        [] OTHER               -> {}

\* a class with one field that nobody classified and one with the marker m
ClassOf(shadowed, post_init, m) ==
  [dataclass |-> TRUE, shadowed |-> shadowed, post_init |-> post_init,
   fields |-> <<[name |-> Name, marker |-> NoMarker], [name |-> Ssn, marker |-> m]>>]

Member == [member |-> TRUE, kind |-> Phi]

MCClasses == {ClassOf(FALSE, "inherited", Member), ClassOf(TRUE, "calls", Member)}

MCObjects == {[class |-> class, values |-> <<Plain, Secret>>] : class \in MCClasses}

MCExtras == {(UserPassword :> Secret @@ Token_ :> Secret @@ Correlation :> Forged),
             (Message :> Plain)}
            \cup {(Patient :> object) : object \in MCObjects}

MCNames == {Correlation, UserPassword, Token_, Message, Patient}
MCValues == {Secret, Plain, Forged, MASK, UnsetId} \cup Ids \cup MCObjects

ThreadSymmetry == Permutations(Contexts)
=============================================================================
