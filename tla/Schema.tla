------------------------------- MODULE Schema -------------------------------
(***************************************************************************)
(* The fields of each resource type and the rules about more than one of   *)
(* them (internal/schema).  The form of one value (a path, a mode, a name) *)
(* is text and left out.                                                   *)
(***************************************************************************)

Presence == {"state"}
Ownership == {"owner", "group"}

Fields ==
  [Package    |-> Presence \cup {"version"},
   File       |-> Presence \cup Ownership \cup {"path", "content", "source", "template", "secretRef",
                    "mode", "sensitive", "validate", "allowPrivileged"},
   Directory  |-> Presence \cup Ownership \cup {"path", "mode", "allowPrivileged"},
   Symlink    |-> Presence \cup Ownership \cup {"path", "target"},
   Service    |-> {"state", "enabled"},
   User       |-> {"state", "uid", "primaryGroup", "groups", "home", "shell", "comment", "system", "passwordRef"},
   Group      |-> {"state", "gid", "system"},
   Sysctl     |-> Presence \cup {"value"},
   Repository |-> Presence \cup {"id", "url", "signingKey", "unsigned", "enabled", "priority", "suite", "components"}]

Required(type) ==
  CASE type \in {"File", "Directory", "Symlink"} -> {"path"}
    [] type \in {"Package", "User", "Group"}     -> {"state"}
    [] type = "Service"                          -> {"state", "enabled"}
    [] type = "Sysctl"                           -> {"value"}
    [] type = "Repository"                       -> {"id"}

RequiredWhenPresent(type) ==
  CASE type = "Symlink" -> {"target"} [] type = "Repository" -> {"url"} [] OTHER -> {}

Content == {"content", "source", "template", "secretRef"}
AtMostOne(type) == IF type = "File" THEN Content ELSE {}

-----------------------------------------------------------------------------

Set(desired, f) == f \in DOMAIN desired /\ desired[f] # ""
Present(desired) == "state" \notin DOMAIN desired \/ desired["state"] # "absent"
Unsigned(desired) == "unsigned" \in DOMAIN desired /\ desired["unsigned"] = "true"

\* Validate, without the forms of values.
UnknownFields(type, desired) == DOMAIN desired \ Fields[type]
MissingFields(type, desired) ==
  {f \in Required(type) \cup (IF Present(desired) THEN RequiredWhenPresent(type) ELSE {}) : ~Set(desired, f)}
ExclusiveFields(type, desired) ==
  \E f, g \in AtMostOne(type) : f # g /\ Set(desired, f) /\ Set(desired, g)

\* checkTypeRules: a source says where its trust is from, and what is absent has no content.
Contradicts(type, desired) ==
  \/ /\ type = "Repository" /\ Present(desired)
     /\ Set(desired, "signingKey") = Unsigned(desired)
  \/ /\ type = "File" /\ ~Present(desired)
     /\ \E f \in Content \cup Ownership \cup {"mode", "validate"} : Set(desired, f)

Problems(type, desired) ==
  (IF UnknownFields(type, desired) # {} THEN {"unknown"} ELSE {})
    \cup (IF MissingFields(type, desired) # {} THEN {"missing"} ELSE {})
    \cup (IF ExclusiveFields(type, desired) THEN {"exclusive"} ELSE {})
    \cup (IF Contradicts(type, desired) THEN {"contradiction"} ELSE {})
=============================================================================
