--------------------------- MODULE ErrorHandling ---------------------------
(***************************************************************************)
(* How an error is handled (internal/errors/handler.go): a caller gets the *)
(* handler of the error from the registry, asks it CanHandle and then      *)
(* calls HandleError, while other goroutines change the registry and the   *)
(* handler.  FailFastHandler handles everything and ignores nothing.       *)
(* ContinueOnErrorHandler ignores errors of some dynamic types, or of all  *)
(* when no type is listed; HandleError does not look a type up as it is:   *)
(* an error with a Timeout or a Temporary method counts as one of two      *)
(* interface types instead.  What a custom handler does is its own affair. *)
(***************************************************************************)
EXTENDS HandlerRegistry

CONSTANTS
  HasTimeout,     \* the types with a Timeout() bool method
  HasTemporary,   \* those with a Temporary() bool method
  timeoutErrorType, tempErrorType, \* the two interface types
  Goroutines

ASSUME ErrorHandlingAssumption ==
  /\ HasTimeout \subseteq Types /\ HasTemporary \subseteq Types
  /\ {timeoutErrorType, tempErrorType} \cap Types = {}

VARIABLES
  ignoredErrorTypes, \* the keys of h.ignoredErrorTypes of the ContinueOnError handler
  handling           \* what each caller is doing

handlingVars == <<registryVars, ignoredErrorTypes, handling>>

\* handler: what the registry returned; can: the answer of CanHandle; same: the
\* listed types did not change since; ignored: HandleError returned nil.
Call(pc, t, h) ==
  [pc |-> pc, type |-> t, handler |-> h, can |-> FALSE, same |-> TRUE, ignored |-> FALSE]

HandlingInit ==
  /\ RegistryInit
  /\ ignoredErrorTypes = {}
  /\ handling \in [Goroutines -> {Call("idle", t, NoHandler) : t \in Types}]
-----------------------------------------------------------------------------
\* getErrorTypeOptimized
LookupType(t) ==
  CASE t \in HasTimeout   -> timeoutErrorType
    [] t \in HasTemporary -> tempErrorType
    [] OTHER              -> t

\* Mutant: without types there is nothing to handle.
AcceptsOnlyListed(t) == t \in ignoredErrorTypes
Accepts(t) == ignoredErrorTypes = {} \/ t \in ignoredErrorTypes
Ignores(t) == ignoredErrorTypes = {} \/ LookupType(t) \in ignoredErrorTypes

\* Asked about nil it reads defaultHandler, without the lock; that is no step here,
\* as there is no error to handle.
GetHandlerForError(c) ==
  LET t == handling[c].type IN
    /\ handling[c].pc = "idle"
    /\ handling' = [handling EXCEPT ![c] =
         Call("found", t, IF typeHandlers[t] # NoHandler THEN typeHandlers[t]
                                                         ELSE defaultHandler)]
    /\ UNCHANGED <<registryVars, ignoredErrorTypes>>

CanHandle(c) ==
  /\ handling[c].pc = "found"
  /\ \E can \in BOOLEAN :
       /\ handling[c].handler = FailFast => can
       /\ handling[c].handler = ContinueOnError => can = Accepts(handling[c].type)
       /\ handling' = [handling EXCEPT ![c].pc = "asked", ![c].can = can]
  /\ UNCHANGED <<registryVars, ignoredErrorTypes>>

HandleError(c) ==
  /\ handling[c].pc = "asked"
  /\ \E ignored \in BOOLEAN :
       /\ handling[c].handler = FailFast => ~ignored
       /\ handling[c].handler = ContinueOnError => ignored = Ignores(handling[c].type)
       /\ handling' = [handling EXCEPT ![c].pc = "handled", ![c].ignored = ignored]
  /\ UNCHANGED <<registryVars, ignoredErrorTypes>>

\* The next error of the caller.
NextError(c) ==
  /\ handling[c].pc = "handled"
  /\ \E t \in Types : handling' = [handling EXCEPT ![c] = Call("idle", t, NoHandler)]
  /\ UNCHANGED <<registryVars, ignoredErrorTypes>>

\* The listed types change under the calls that are between their two steps.
TypesBecome(types) ==
  /\ ignoredErrorTypes' = types
  /\ handling' = [c \in Goroutines |->
       IF handling[c].pc = "asked" /\ types # ignoredErrorTypes
       THEN [handling[c] EXCEPT !.same = FALSE] ELSE handling[c]]
  /\ UNCHANGED registryVars

AddIgnoredErrorType(t) == TypesBecome(ignoredErrorTypes \cup {t})

RemoveIgnoredErrorType(t) == TypesBecome(ignoredErrorTypes \ {t})

HandlingNext ==
  \/ RegistryNext /\ UNCHANGED <<ignoredErrorTypes, handling>>
  \/ \E c \in Goroutines : GetHandlerForError(c) \/ CanHandle(c) \/ HandleError(c) \/ NextError(c)
  \/ \E t \in Types : AddIgnoredErrorType(t) \/ RemoveIgnoredErrorType(t)

HandlingSpec == HandlingInit /\ [][HandlingNext]_handlingVars
-----------------------------------------------------------------------------
\* Errors the fast path of getErrorTypeOptimized does not reclassify.
Plain(t) == t \notin HasTimeout \cup HasTemporary

\* For plain errors CanHandle of ContinueOnErrorHandler tells what HandleError
\* will do, whatever happens to the registry in between and unless the listed
\* types change (CanHandle, HandleError).  For the others it does not.
CanHandleAgrees ==
  \A c \in Goroutines :
    (/\ handling[c].pc = "handled" /\ handling[c].same
     /\ handling[c].handler = ContinueOnError /\ Plain(handling[c].type))
      => handling[c].ignored = handling[c].can
=============================================================================
