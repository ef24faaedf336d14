------------------------- MODULE CorrelationContext -------------------------
(***************************************************************************)
(* mixin_logging/context/correlation/correlation_client.py                 *)
(*                                                                         *)
(* ContextVarClient keeps the correlation id in one ContextVar without a   *)
(* default.  Its value belongs to a context, and a context to a thread or  *)
(* an asyncio task: a task starts with a copy of the context that creates  *)
(* it, a thread with an empty one.  The module sets the variable to None   *)
(* where it is imported, so that an empty context has no value at all, and *)
(* current_id raises LookupError there.                                    *)
(***************************************************************************)
CONSTANTS Contexts,  \* the threads and tasks
          Null,      \* CorrelationContext(None)
          Missing    \* the context has no value for the variable

ASSUME ContextAssumption == Null # Missing

VARIABLE correlation_ctx   \* the value of the ContextVar in each context

\* set_id
SetId(c, id) == correlation_ctx' = [correlation_ctx EXCEPT ![c] = id]

\* seeded bug: the id is kept in a variable of the module, not of the context
ClearGlobal(c) == correlation_ctx' = [x \in Contexts |-> Null]

\* clear, which does not go back to what the id was before
Clear(c) == correlation_ctx' = [correlation_ctx EXCEPT ![c] = Null]

\* current_id has an id to return
HasId(c) == correlation_ctx[c] \notin {Null, Missing}

\* current_id raises LookupError
LookUpFails(c) == correlation_ctx[c] = Missing

\* contextvars.copy_context, of the context that creates a task
CopyContext(parent, child) ==
  correlation_ctx' = [correlation_ctx EXCEPT ![child] = correlation_ctx[parent]]

\* the context of a new thread
EmptyContext(child) == correlation_ctx' = [correlation_ctx EXCEPT ![child] = Missing]
=============================================================================
