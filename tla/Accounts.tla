------------------------------ MODULE Accounts ------------------------------
(***************************************************************************)
(* Provider linux-user: one account of the user or group database.         *)
(*                                                                         *)
(* host.account is the entry, of which shell stands for comment, home and  *)
(* shell.  Groups are compared sorted, hence as sets here.                 *)
(***************************************************************************)
EXTENDS Provider

NoAccount == [id |-> 0, primary |-> "-", groups |-> {}, shell |-> ""]
Entry(id, primary, groups, shell) == [id |-> id, primary |-> primary, groups |-> groups, shell |-> shell]

Id(type) == IF type = "User" THEN "uid" ELSE "gid"

\* id prints the primary group among the others, where it is left out again.
Observe(type, d, host) ==
  LET account == host.account
      names == IF type = "User" THEN {"uid", "primaryGroup", "groups", "shell"} ELSE {"gid"}
  IN  IF account = NoAccount THEN NotThere
      ELSE [There([f \in names |-> CASE f = "primaryGroup" -> account.primary
                                     [] f = "groups" -> account.groups \ {account.primary}
                                     [] f = "shell" -> account.shell
                                     [] OTHER -> account.id])
              EXCEPT !.uncorrectable = {Id(type)}]

-----------------------------------------------------------------------------

\* usermod gets an option for every declared field but the uid, or is not called.
OptionsWithoutGroups(d) == DOMAIN d \cap {"primaryGroup", "shell"}  \* defect: membership is not managed
Options(d) == DOMAIN d \cap {"primaryGroup", "groups", "shell"}

Calls(type, d, host, action, trigger) ==
  IF action = "remove" THEN <<"del">>
  ELSE IF action = "create" THEN <<"add">>
  ELSE IF type = "User" /\ Options(d) # {} THEN <<"mod">> ELSE <<>>

\* The ids that useradd and groupadd allocate, and the group useradd makes.
Allocated == 1000

With(account, d, options) ==
  [account EXCEPT !.primary = IF "primaryGroup" \in options THEN d.primaryGroup ELSE @,
                  !.groups  = IF "groups" \in options THEN d.groups ELSE @,
                  !.shell   = IF "shell" \in options THEN d.shell ELSE @]

ModArgsWithId(type, d, account) ==                    \* defect: a declared id is set on an account in use
  [With(account, d, Options(d)) EXCEPT !.id = Declared(d, Id(type), @)]
ModArgs(type, d, account) == With(account, d, Options(d))

Effect(type, d, host, call) ==
  LET account == host.account
      fresh == Entry(Declared(d, Id(type), Allocated), IF type = "User" THEN "own" ELSE "", {}, "")
  IN  {[host EXCEPT !.account = a] : a \in
        CASE call = "add" -> IF account = NoAccount THEN {With(fresh, d, Options(d))} ELSE {}
          [] call = "mod" -> IF account = NoAccount THEN {} ELSE {ModArgs(type, d, account)}
          [] call = "del" -> IF account = NoAccount THEN {} ELSE {NoAccount}}
=============================================================================
