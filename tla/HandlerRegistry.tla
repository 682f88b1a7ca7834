--------------------------- MODULE HandlerRegistry ---------------------------
(***************************************************************************)
(* HandlerRegistry (internal/errors/handler.go): error handlers registered *)
(* under their names, error types bound to handlers, and a default.  Every *)
(* method holds r.mu from its first read to its last write, so each is one *)
(* step; the callers are any number of goroutines.                         *)
(***************************************************************************)
CONSTANTS
  Handlers,   \* handler values; two of them may have the same name
  Names,
  Name,       \* Name[h]: what h.Name() returns
  Types,      \* the dynamic types of errors
  NoHandler,  \* what a map holds where it has no entry
  FailFast,   \* the two handlers NewHandlerRegistry makes
  ContinueOnError

ASSUME RegistryAssumption ==
  /\ Name \in [Handlers -> Names]
  /\ NoHandler \notin Handlers
  /\ FailFast \in Handlers /\ ContinueOnError \in Handlers
  /\ Name[FailFast] # Name[ContinueOnError]

VARIABLES
  handlers,      \* r.handlers, a map from names
  typeHandlers,  \* r.typeHandlers, a map from types
  defaultHandler \* r.defaultHandler

registryVars == <<handlers, typeHandlers, defaultHandler>>

Registered(n) == handlers[n] # NoHandler

\* Every variable keeps its type, the default is never nil, and each handler is
\* registered under its own name (RegisterHandler, SetDefaultHandler).
RegistryTypeOK ==
  /\ handlers \in [Names -> Handlers \cup {NoHandler}]
  /\ typeHandlers \in [Types -> Handlers \cup {NoHandler}]
  /\ defaultHandler \in Handlers
  /\ \A n \in Names : Registered(n) => Name[handlers[n]] = n

RegistryInit ==
  /\ handlers = [n \in Names |-> IF n = Name[FailFast] THEN FailFast
                                 ELSE IF n = Name[ContinueOnError] THEN ContinueOnError
                                 ELSE NoHandler]
  /\ typeHandlers = [t \in Types |-> NoHandler]
  /\ defaultHandler = FailFast
-----------------------------------------------------------------------------
\* Mutant: a handler of a name that is taken replaces the old one.
RegisterHandlerAnyway(h) ==
  /\ handlers' = [handlers EXCEPT ![Name[h]] = h]
  /\ UNCHANGED <<typeHandlers, defaultHandler>>

\* A name that is taken is refused.
RegisterHandler(h) ==
  /\ ~Registered(Name[h])
  /\ handlers' = [handlers EXCEPT ![Name[h]] = h]
  /\ UNCHANGED <<typeHandlers, defaultHandler>>

\* Mutant: the bindings of the handler stay.
UnregisterHandlerOnly(n) ==
  /\ Registered(n)
  /\ handlers' = [handlers EXCEPT ![n] = NoHandler]
  /\ UNCHANGED <<typeHandlers, defaultHandler>>

\* The loop over typeHandlers compares names, not handlers.
UnregisterHandler(n) ==
  /\ Registered(n)
  /\ handlers' = [handlers EXCEPT ![n] = NoHandler]
  /\ typeHandlers' = [t \in Types |->
       IF typeHandlers[t] # NoHandler /\ Name[typeHandlers[t]] = n
       THEN NoHandler ELSE typeHandlers[t]]
  /\ UNCHANGED defaultHandler

\* Any handler may become the default, a registered one or not.
SetDefaultHandler(h) ==
  /\ defaultHandler' = h
  /\ UNCHANGED <<handlers, typeHandlers>>

BindErrorTypeToHandler(t, n) ==
  /\ Registered(n)
  /\ typeHandlers' = [typeHandlers EXCEPT ![t] = handlers[n]]
  /\ UNCHANGED <<handlers, defaultHandler>>

UnbindErrorType(t) ==
  /\ typeHandlers' = [typeHandlers EXCEPT ![t] = NoHandler]
  /\ UNCHANGED <<handlers, defaultHandler>>

RegistryNext ==
  \/ \E h \in Handlers : RegisterHandler(h) \/ SetDefaultHandler(h)
  \/ \E n \in Names : UnregisterHandler(n)
  \/ \E t \in Types : UnbindErrorType(t) \/ \E n \in Names : BindErrorTypeToHandler(t, n)

RegistrySpec == RegistryInit /\ [][RegistryNext]_registryVars
-----------------------------------------------------------------------------
\* A type is bound only to the very handler that is registered under its name
\* now: no binding outlives its handler, also when another handler takes the
\* name later (UnregisterHandler, BindErrorTypeToHandler).
BindingsRegistered ==
  \A t \in Types : typeHandlers[t] # NoHandler =>
    handlers[Name[typeHandlers[t]]] = typeHandlers[t]
=============================================================================
