---------------------------- MODULE CustomerDesk ----------------------------
(***************************************************************************)
(* What the staff ask about customers and set on them                      *)
(* (src/apps/customers/views/admin_side.py), money and services aside.     *)
(*                                                                         *)
(* customers are by their number; seen are those the rights and the sites  *)
(* of the staff member leave (AccessRules.Visible).  An answer is          *)
(* [status, rows] of a list, [status, after] of a change.                  *)
(***************************************************************************)
EXTENDS Integers, FiniteSets, SequencesExt

CONSTANT nothing                            \* a column or a parameter without a value

List(rows)            == [status |-> 200, rows |-> rows]
Refused(status)       == [status |-> status, rows |-> {}]
Done(status, after)   == [status |-> status, after |-> after]
IfSeen(who, seen, answer, otherwise) == IF who \in seen THEN answer ELSE otherwise

-----------------------------------------------------------------------------
(* Lists of customers. *)

(* A row for a number that is not seen would be the empty() of a manager, which
   managers have not. *)
PaymentLog(logs, who, seen) ==
  IfSeen(who, seen, List(Reverse(SelectSeq(logs, LAMBDA l : l.customer = who))), Refused(500))

(* Groups are filtered by rights, the customers counted in them are not. *)
GroupsWithCustomers(groups, customers) ==
  LET Members(g) == {c \in DOMAIN customers : customers[c].group = g}
  IN  List({[group |-> g, count |-> Cardinality(Members(g))] : g \in {h \in groups : Members(h) # {}}})

ServiceUsers(customers, seen, service) == List({c \in seen : customers[c].service = service})
OnPort(customers, seen, device, port) ==
  List({c \in seen : customers[c].device = device /\ customers[c].port = port})

(* get_afk names a parameter date_limit that filter_long_time_inactive_customers
   calls since_time; the list of those without an address takes no request, which
   the pages need. *)
Afk == Refused(500)
WithoutAddress == Refused(500)

(* Q() with | gives the other one: all the filters or some field with the text,
   and everybody when none is given. *)
FieldsMatch(c, filters) == \A f \in DOMAIN filters : c[f] = filters[f]
TextMatches(c, text)    == \E f \in {"username", "fio", "telephone", "description"} : text \in c[f]
Chosen(c, filters, text) ==
  \/ FieldsMatch(c, filters) /\ (DOMAIN filters # {} \/ text = nothing)
  \/ text # nothing /\ TextMatches(c, text)

(* A house, else a street, else an address; zero is none of them. *)
AddressOf(r) ==
  LET given == SelectSeq(<<r.house, r.street, r.address>>, LAMBDA a : a \notin {nothing, 0})
  IN  IF given = <<>> THEN nothing ELSE given[1]

(* filter_customers_by_address drops the condition on the address it may have by
   looking at the left side of every condition: one with OR has none.  A search
   is such a condition, and so are rights given customer by customer. *)
RemoveFilterFails(conditions) == \E c \in conditions : c.or
Conditions(r, staff) ==
  {[or |-> r.text # nothing]} \cup {[or |-> ~staff.superuser /\ staff.byObject]}

Customers(customers, seen, r, staff, under) ==
  LET at == AddressOf(r)
  IN  IF at # nothing /\ RemoveFilterFails(Conditions(r, staff)) THEN Refused(500)
      ELSE List({c \in seen : /\ Chosen(customers[c], r.filters, r.text)
                              /\ at # nothing => customers[c].address \in under[at]})

(* Telephones by the rights to them, periodic pays by those to the customer. *)
Telephones(telephones, granted, who) == List({t \in granted : telephones[t].customer = who})
PeriodicPays(pays, granted, who)     == List({p \in DOMAIN pays : pays[p].account = who /\ who \in granted})

-----------------------------------------------------------------------------
(* Services of a group, as sets.  The page shows the services the staff member
   sees, with a mark on those of the group. *)
GroupServices(has, group, groups, seen) ==
  IfSeen(group, groups, List({[service |-> s, check |-> s \in has] : s \in seen}), Refused(404))

(* attach_group_service: the group keeps what is marked and seen, and nothing else. *)
AttachServices(has, group, groups, marked, seen) ==
  IfSeen(group, groups, Done(204, marked \cap seen), Done(404, has))

(* set_service_group_accessory: services of other sites stay, what is wanted is
   added, seen or not; if one of these is not there the removal has been made. *)
Accessory(has, group, groups, wanted, ofSite, superuser, all) ==
  LET existed == IF superuser THEN has ELSE has \cap ofSite
  IN  IF group \notin groups THEN Done(404, has)
      ELSE IF ~(wanted \subseteq all) THEN Done(500, has \ (existed \ wanted))
      ELSE Done(204, (has \ (existed \ wanted)) \cup wanted)

-----------------------------------------------------------------------------
(* One customer. *)

CurrentService(customers, seen, who) ==
  IfSeen(who, seen, IF customers[who].service = nothing THEN Refused(204) ELSE List({customers[who].service}),
         Refused(404))

(* A lease answers to a ping or, the other form, to one without ARP; the first
   that does ends the search, the lock or an error of an address too. *)
Ping(leases) ==
  LET ends == {i \in DOMAIN leases : leases[i] \in {"answers", "locked", "error"}}
  IN  ends # {} /\ leases[CHOOSE i \in ends : \A j \in ends : i <= j] = "answers"

(* Passports: the right to see a customer is enough to change one.  A new row
   takes the defaults of the model, one that is there keeps what is not given. *)
SetPassport(passports, defaults, who, seen, given) ==
  LET base == IF who \in DOMAIN passports THEN passports[who] ELSE defaults
      row  == [f \in DOMAIN base |-> IF f \in DOMAIN given THEN given[f] ELSE base[f]]
  IN  IF who \notin seen THEN Done(404, passports)
      ELSE Done(IF who \in DOMAIN passports THEN 200 ELSE 201,
                [c \in DOMAIN passports \cup {who} |-> IF c = who THEN row ELSE passports[c]])
Passport(passports, who, seen) ==
  IF who \in seen /\ who \in DOMAIN passports THEN List({passports[who]}) ELSE Refused(404)

(* Markers: all of them or none.  set_markers of no names sets None, which BitField
   reads as no flags. *)
Flags == {"icon_donkey", "icon_fire", "icon_ok", "icon_king", "icon_tv", "icon_smile", "icon_dollar",
          "icon_service", "icon_mrk", "icon_red_tel", "icon_green_tel", "icon_doc", "icon_reddoc"}
SetMarkers(has, who, seen, names) ==
  IF who \notin seen THEN Done(404, has)
  ELSE IF ~(names \subseteq Flags) THEN Done(400, has) ELSE Done(204, names)

(* The token of a customer whose main telephone and an additional one are both the
   one asked for, the first of such. *)
TokenByPhone(additional, tokens, phone) ==
  LET found == SelectSeq(additional, LAMBDA t : t.telephone = phone /\ t.main = phone)
  IN  IF found = <<>> \/ found[1].customer \notin DOMAIN tokens THEN nothing
      ELSE tokens[found[1].customer]

(* The plain password beside the hash: an empty one changes nothing. *)
UpdatePassword(raw, who, password) ==
  IF password = nothing THEN raw
  ELSE [c \in DOMAIN raw \cup {who} |-> IF c = who THEN password ELSE raw[c]]

(* Attachments; a customer that is not there is an error of the database. *)
Attach(files, new, customers) ==
  IF new.customer \in customers THEN Done(201, files \cup {new}) ELSE Done(500, files)
AttachmentsOf(files, who) == List({f \in files : f.customer = who})
Detach(files, file, granted) ==
  IF file \in files \cap granted THEN Done(204, files \ {file}) ELSE Done(404, files)

-----------------------------------------------------------------------------
(* Dynamic fields: the fields of the customer's group with what was written in
   them, by contents [id |-> [customer, field, content]]. *)
Combine(fields, contents, who, group) ==
  {[field |-> f,
    id |-> IF \E i \in DOMAIN contents : contents[i].customer = who /\ contents[i].field = f
           THEN CHOOSE i \in DOMAIN contents : contents[i].customer = who /\ contents[i].field = f
           ELSE nothing] : f \in {g \in DOMAIN fields : group \in fields[g].groups}}

NextId(contents) == Max(DOMAIN contents \cup {0}) + 1

(* update_all, row by row without a transaction: by its number, whoever's it is; a
   second content of a field of a customer is refused, and the rows before it stay. *)
UpdateAll(contents, rows) ==
  FoldLeft(LAMBDA got, r :
    LET taken == \E i \in DOMAIN got.after : /\ got.after[i].customer = r.customer
                                             /\ got.after[i].field = r.field
    IN  IF got.status = 500 THEN got
        ELSE IF r.id # nothing
        THEN Done(200, [i \in DOMAIN got.after |->
                          IF i = r.id THEN [got.after[i] EXCEPT !.content = r.content] ELSE got.after[i]])
        ELSE IF taken THEN Done(500, got.after)
        ELSE Done(200, [i \in DOMAIN got.after \cup {NextId(got.after)} |->
                          IF i \in DOMAIN got.after THEN got.after[i]
                          ELSE [customer |-> r.customer, field |-> r.field, content |-> r.content]]),
    Done(200, contents), rows)

-----------------------------------------------------------------------------
(* Reports: numbers of customers who are on, by their services. *)
Serviced(customers) == {c \in DOMAIN customers : customers[c].active /\ customers[c].service # nothing}
ServiceTypes(customers, services, kinds) ==
  LET With(P(_)) == Cardinality({c \in Serviced(customers) : P(services[customers[c].service])})
  IN  [all |-> Cardinality(Serviced(customers)), admin |-> With(LAMBDA s : s.admin),
       free |-> With(LAMBDA s : s.cost = 0), kinds |-> [k \in kinds |-> With(LAMBDA s : s.kind = k)]]

Activity(customers, services, leases) ==
  [all        |-> Cardinality(DOMAIN customers),
   enabled    |-> Cardinality({c \in DOMAIN customers : customers[c].active}),
   services   |-> Cardinality(Serviced(customers)),
   active     |-> Cardinality({c \in Serviced(customers) : leases[c] > 0}),
   commercial |-> Cardinality({c \in Serviced(customers) :
                      ~services[customers[c].service].admin /\ services[customers[c].service].cost > 0})]
=============================================================================
