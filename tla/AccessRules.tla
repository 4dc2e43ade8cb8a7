---------------------------- MODULE AccessRules ----------------------------
(***************************************************************************)
(* What accounts may do and see (src/apps/djing2, src/apps/profiles):      *)
(* tokens in headers, rights, filters by rights, sites and groups, the     *)
(* site a request is for, and the rules about accounts.                    *)
(*                                                                         *)
(* A user is [name, active, admin, super, perms, groups, sites]; an object *)
(* has granted, the pairs of a user or a group and a permission, and, where *)
(* its model has them, sites and groups.                                   *)
(***************************************************************************)
EXTENDS Integers, FiniteSets, Sequences

CONSTANT nothing

-----------------------------------------------------------------------------
(* TokenAPIKeyHeader: the header cut at each space; "" between two spaces. *)
TokenOf(words) ==
  IF Len(words) = 2 /\ words[1] \in {"token", "Token", "TOKEN"} THEN words[2] ELSE nothing

AdminAllowed(u)    == u.admin
CustomerAllowed(u) == ~u.admin
SuperAllowed(u)    == u.admin /\ u.super

(* has_perm of Django asks for an active account; check_perm does not, of a
   superuser. *)
HasPerm(u, perm)   == u.active /\ (u.super \/ perm \in u.perms)
CheckPerm(u, perm) == u.super \/ HasPerm(u, perm)
RouteAllowed(u, perm) == AdminAllowed(u) /\ CheckPerm(u, perm)

(* filter_qs_by_rights, filter_qs_with_sites, general_filter_queryset. *)
ByRights(u, objects, perm) ==
  IF CheckPerm(u, perm) THEN objects
  ELSE {o \in objects : \E who \in {u.name} \cup u.groups : <<who, perm>> \in o.granted}
BySite(u, objects, site) ==
  IF u.super \/ site = nothing THEN objects ELSE {o \in objects : site \in o.sites}
Visible(u, objects, perm, site) == BySite(u, ByRights(u, objects, perm), site)

(* The same for views of Django, where a site is always known; a row is listed
   once for each group of its own that the user may see. *)
OfSite(u, objects, site) == IF u.super THEN objects ELSE {o \in objects : site \in o.sites}
TimesListed(u, o, groups) ==
  IF u.super THEN 1 ELSE Cardinality(o.groups \cap {g.key : g \in ByRights(u, groups, "view_group")})

-----------------------------------------------------------------------------
(* assign_rights2new_obj: all rights of the model to the groups of the creator. *)
GrantNew(u, o, perms) == [o EXCEPT !.granted = @ \cup u.groups \X perms]

(* set_object_perms: what the group may have afterwards.  What is not selected is
   taken first, then the rest is given one by one in no order; a permission of
   another model is an error there. *)
PermsAfter(existing, selected, ofModel) ==
  LET kept == existing \cap selected
      new  == selected \ existing
  IN  IF new \subseteq ofModel THEN {kept \cup new}
      ELSE {kept \cup given : given \in SUBSET (new \cap ofModel)}

-----------------------------------------------------------------------------
(* The host of a request.  Names of headers have no underscores, but for those of
   the environment of a web server; is_secure compares a function with a text. *)
IsSecure == FALSE
RawHost(hdrs, useForwarded) ==
  IF useForwarded /\ "http_x_forwarded_host" \in DOMAIN hdrs THEN hdrs["http_x_forwarded_host"]
  ELSE IF "host" \in DOMAIN hdrs THEN hdrs["host"]
  ELSE IF ~({"server_name", "server_port"} \subseteq DOMAIN hdrs) THEN nothing
  ELSE [domain |-> hdrs["server_name"],
        port   |-> IF hdrs["server_port"] = (IF IsSecure THEN 443 ELSE 80) THEN 0
                   ELSE hdrs["server_port"]]

(* sites_dependency: by the host with its port, then without; what was found is
   kept as long as the process lives.  No port is 0. *)
Bare(host) == [host EXCEPT !.port = 0]
Found(table, cache, host) ==
  IF host \in DOMAIN cache THEN cache
  ELSE IF host \in DOMAIN table
       THEN [h \in DOMAIN cache \cup {host} |-> IF h = host THEN table[h] ELSE cache[h]]
  ELSE cache
SiteOf(table, cache, host) ==
  LET first == Found(table, cache, host)
      both  == IF host \in DOMAIN first THEN first ELSE Found(table, first, Bare(host))
  IN  [cache |-> both,
       site  |-> IF host \in DOMAIN both THEN both[host]
                 ELSE IF Bare(host) \in DOMAIN both THEN both[Bare(host)] ELSE nothing]

(* check_subnet: a list of networks is taken loosely; one network with bits of a
   host is an error, which is taken for a refusal. *)
InNet(ip, net) == LET first == net.base - (net.base % net.size) IN ip \in first .. (first + net.size - 1)
SubnetAllowed(ip, nets, list) ==
  /\ ip # nothing
  /\ \E net \in nets : InNet(ip, net) /\ (list \/ net.base % net.size = 0)

-----------------------------------------------------------------------------
(* Logins: by a password, and by the address of a lease. *)
LoginAllowed(u, rightPassword, site) ==
  rightPassword /\ u.active /\ (u.super \/ (site # nothing /\ site \in u.sites))
LocationLogin(leases, ip, site) ==
  LET owners == {l.customer : l \in {x \in leases : x.ip = ip /\ x.customer # nothing}}
  IN  {u \in owners : u.active /\ site \in u.sites}

(* Profiles are made by create_superuser, which is told neither sites nor groups. *)
NewProfile(name, active) ==
  [name |-> name, active |-> active, admin |-> TRUE, super |-> TRUE,
   perms |-> {}, groups |-> {}, sites |-> {}]

(* A profile is changed by its owner, or by a superuser, who alone changes rights. *)
MayUpdate(u, p) == u.super \/ u.name = p.name
UpdateProfile(u, p, data) ==
  LET taken == DOMAIN data \ (IF u.super THEN {} ELSE {"super", "groups", "perms"})
  IN  IF MayUpdate(u, p) THEN [f \in DOMAIN p |-> IF f \in taken THEN data[f] ELSE p[f]] ELSE p
ChangePassword(u, p, rightOld) ==
  IF ~MayUpdate(u, p) THEN 403 ELSE IF ~u.super /\ ~rightOld THEN 400 ELSE 200
OwnLogs(u, logs) == IF u.super THEN logs ELSE {l \in logs : l.account = u.name}

(* The validators of a day of birth count years of 365 days. *)
OldEnough(born, today)   == born <= today - 18 * 365
NotTooOld(born, today)   == born > today - 40150
BirthDayValid(born, today) == OldEnough(born, today) /\ NotTooOld(born, today)

(* split_fio: surname, name, and all the rest; a single word is a name. *)
SplitFio(words) ==
  [surname |-> IF Len(words) > 1 THEN words[1] ELSE nothing,
   name |-> CASE Len(words) = 0 -> nothing [] Len(words) = 1 -> words[1] [] OTHER -> words[2],
   rest |-> IF Len(words) > 2 THEN SubSeq(words, 3, Len(words)) ELSE nothing]

-----------------------------------------------------------------------------
(* search_entry_point: an address of the network, of a card, or a text; an address
   is looked for as a part of those of leases.  Texts are sets of what they contain. *)
SearchLimit(limit) == IF limit > 500 THEN 500 ELSE limit
Searched(u, objects, perm, site, s, fields) ==
  IF s = {} THEN {}
  ELSE {o \in BySite(u, ByRights(u, objects, perm), site) :
          \E f \in fields : \E value \in o[f] : s \subseteq value}
CustomerFields(kind) ==
  CASE kind = "ip" -> {"ips"} [] kind = "mac" -> {"macs"} [] OTHER -> {"texts"}
DeviceFields(kind) == IF kind = "mac" THEN {"mac"} ELSE {"texts", "ips"}
=============================================================================
