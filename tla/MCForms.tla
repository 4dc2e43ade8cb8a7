------------------------------- MODULE MCForms -------------------------------
(* The operators of the modules without state that describe forms, files and
   answers, against what they should give over bounded inputs. *)
EXTENDS Integers, FiniteSets, Sequences
LOCAL INSTANCE Folds
LOCAL INSTANCE TLC

CONSTANTS error, nothing

-----------------------------------------------------------------------------
(* Files of the export: the fields a row of the database can spoil. *)
File == INSTANCE ExportFormats

ASSUME File!Refusable(File!RootFormat, File!RootRow) = {}
ASSUME File!Refusable(File!ContractFormat, File!ContractRow) = {}
ASSUME File!Refusable(File!LeaseFormat, File!LeaseRow) = {}
ASSUME File!Refusable(File!PoolFormat, File!PoolRow) = {}
ASSUME File!Refusable(File!NomenclatureFormat, File!NomenclatureRow) = {}
ASSUME File!Refusable(File!AaaFormat, File!AaaRow) = {}
ASSUME File!Refusable(File!EntityFormat, File!EntityRow) = {}
ASSUME File!Refusable(File!BankFormat, File!BankRow) = {}

(* Titles of addresses: the numbers of houses and buildings are asked for, and a
   house may be "12a"; lengths of joined titles have no bound. *)
ASSUME File!Refusable(File!AddressFormat, File!AddressRow) = {"full_title"}
ASSUME File!Refusable(File!AccessPointFormat, File!AccessPointRow)
         = {"house", "house_num", "building_corpus", "full_address"}
ASSUME File!Refusable(File!PlaceFormat, File!PlaceRow)
         = {"index", "office", "house", "building", "corpus"}
ASSUME File!Refusable(File!SwitchFormat, File!SwitchRow) = {"place"}

(* People: long names and distributors, a person without a name; a customer may be
   in the file of roots and not in this one. *)
ASSUME File!Refusable(File!IndividualFormat, File!IndividualRow)
         = {"name", "last_name", "surname", "document_distributor", "passport_code",
            "house", "house_num", "building", "building_corpus"}
ASSUME File!Refusable(File!ContactFormat, File!ContactRow) = {"contact"}

(* A gateway without a place; a payment of a removed customer, or of 100000 and more. *)
ASSUME File!Refusable(File!GatewayFormat, File!GatewayRow) = {"gw_addr"}
ASSUME File!Refusable(File!PaymentFormat, File!PaymentRow) = {"customer_id", "amount"}
ASSUME File!Refusable(File!ServiceFormat, File!ServiceRow) = {"begin_time"}
ASSUME File!Refusable(File!SpecialFormat, File!SpecialRow) = {"tel_number", "description"}

-----------------------------------------------------------------------------
(* Generated routes: what several schemas of a model do to each other's columns. *)
Rest == INSTANCE RestRoutes

RestSchemas ==
  {[name |-> 1, model |-> "a", columns |-> {"id", "x"}, computed |-> {}],
   [name |-> 2, model |-> "a", columns |-> {"y"}, computed |-> {"sum"}],
   [name |-> 3, model |-> "a", columns |-> {"id", "z"}, computed |-> {}],
   [name |-> 4, model |-> "b", columns |-> {"id"}, computed |-> {"sum"}]}
RouteOrders == UNION {[1 .. n -> RestSchemas] : n \in 0 .. 4}
OnceOnly(q) == \A i, j \in DOMAIN q : (i # j /\ q[i] = q[j]) => q[i].computed = {}

(* A route has the columns of its own schema, of those of its model before it, and
   of the one made next. *)
Following(q, i) == {j \in DOMAIN q : j > i /\ q[j].model = q[i].model
                                   /\ \A k \in (i + 1) .. (j - 1) : q[k].model # q[i].model}
ASSUME \A q \in RouteOrders : OnceOnly(q) =>
  \A i \in DOMAIN q : Rest!RouteColumns(q)[i] =
    UNION {q[j].columns : j \in Following(q, i) \cup {k \in 1 .. i : q[k].model = q[i].model}}
ASSUME \A q \in RouteOrders : \A i \in DOMAIN q : q[i].columns \subseteq Rest!RouteColumns(q)[i]

(* Pages: next leads to every row once; from below one the first page is read again. *)
Numbered(n) == [i \in 1 .. n |-> i]
ASSUME \A n \in 0 .. 7, size \in 1 .. 4 :
  /\ Rest!ReadFrom(Numbered(n), 1, size) = Numbered(n)
  /\ n > 0 => Rest!ReadFrom(Numbered(n), 0, size) = Rest!Page(Numbered(n), 1, size) \o Numbered(n)
  /\ \A page \in 1 .. 8 :
       (Rest!NextPage(Numbered(n), page, size) # nothing) = (Rest!Page(Numbered(n), page + 1, size) # <<>>)

(* A null is shown unless its column is asked for. *)
ASSUME LET row == [x |-> nothing, y |-> 1] IN
  /\ Rest!Shown({"x", "y"}, {"sum"}, {}, row) = {"x", "y", "sum"}
  /\ Rest!Shown({"x", "y"}, {"sum"}, {"x", "y"}, row) = {"y"}

(* A row that is made keeps what was given, but for nulls and defaults of the schema. *)
RowPayloads == UNION {[fs -> {nothing, 0, 1, 2}] : fs \in SUBSET {"x", "owner"}}
ASSUME \A p \in RowPayloads :
  LET made == Rest!Create(<<>>, 1, p, [x |-> 0], [owner |-> {1}], {"owner"}, [x |-> 2]) IN
  /\ made.status = 201 => /\ made.table[1].owner = p.owner
                          /\ made.table[1].x # 2 => made.table[1].x = p.x
                          /\ ("x" \in DOMAIN p /\ p.x = 0) => made.table[1].x = 2
  /\ made.status = 404 <=> ("owner" \in DOMAIN p /\ p.owner \in {0, 2})
  /\ made.status = 500 <=> ("owner" \notin DOMAIN p \/ p.owner = nothing)

(* A change of a row through the columns of another schema is a change. *)
ASSUME LET q == <<[name |-> 1, model |-> "a", columns |-> {"x"}, computed |-> {}],
                  [name |-> 2, model |-> "a", columns |-> {"y"}, computed |-> {}]>>
       IN  Rest!Update(<<[x |-> 1, y |-> 1]>>, 1, [y |-> 2, z |-> 3], Rest!RouteColumns(q)[1], {}, <<>>)
             = [status |-> 200, table |-> <<[x |-> 1, y |-> 2]>>]

(* Lists of addresses: nobody's children are of any type. *)
ASSUME LET rows == [parent : {nothing, 1, 2}, type : {1, 2}] IN
  \A parent \in {nothing, 0, 1}, type \in {nothing, 1} :
    (\A r \in Rest!AddressList(rows, parent, type) : type # nothing => r.type = type)
      <=> (parent # 0 \/ type = nothing)

-----------------------------------------------------------------------------
(* Rights of accounts. *)
Rules == INSTANCE AccessRules

Users == [name : {"u"}, active : BOOLEAN, admin : {TRUE}, super : BOOLEAN,
          perms : SUBSET {"view"}, groups : SUBSET {"g"}, sites : SUBSET {1}]
Things == [granted : SUBSET ({"u", "g"} \X {"view"}), sites : SUBSET {1, 2}]

(* Rights add up: with more groups, permissions and sites nobody sees less. *)
ASSUME \A u \in Users, o \in Things, site \in {1, 2, nothing} :
  o \in Rules!Visible(u, {o}, "view", site) =>
    o \in Rules!Visible([u EXCEPT !.active = TRUE, !.perms = {"view"}, !.groups = {"g"}],
                        {o}, "view", site)
(* A route that is allowed shows all of a site; check_perm and has_perm differ on
   superusers who are turned off. *)
ASSUME \A u \in Users :
  /\ Rules!RouteAllowed(u, "view") =>
       Rules!Visible(u, Things, "view", 1) = IF u.super THEN Things ELSE {o \in Things : 1 \in o.sites}
  /\ (Rules!CheckPerm(u, "view") # Rules!HasPerm(u, "view")) <=> (u.super /\ ~u.active)

(* Who makes an object sees it, if he is in a group or may see all. *)
ASSUME \A u \in Users :
  LET made == Rules!GrantNew(u, [granted |-> {}, sites |-> {1}], {"view", "change"})
  IN  made \in Rules!ByRights(u, {made}, "view")
        <=> (u.groups # {} \/ Rules!CheckPerm(u, "view"))
(* And a new profile is on no site, so staff who are no superusers do not see it. *)
ASSUME \A u \in Users : (Rules!OfSite(u, {Rules!NewProfile("p", TRUE)}, 1) = {}) = ~u.super

(* A row of two groups is listed twice, and one of none not at all. *)
ASSUME LET groups == {[key |-> k, granted |-> {<<"g", "view_group">>}] : k \in {1, 2}}
           u == [name |-> "u", active |-> TRUE, admin |-> TRUE, super |-> FALSE,
                 perms |-> {}, groups |-> {"g"}, sites |-> {1}]
       IN  \A gs \in SUBSET {1, 2} : Rules!TimesListed(u, [groups |-> gs], groups) = Cardinality(gs)

(* Permissions of an object become the selected ones; with one of another model
   those not selected are gone and of the new ones some are there. *)
ASSUME \A existing \in SUBSET {1, 2}, selected \in SUBSET {1, 2, 3} :
  LET after == Rules!PermsAfter(existing, selected, {1, 2}) IN
  /\ 3 \notin selected => after = {selected}
  /\ \A a \in after : a \subseteq selected \ {3} /\ existing \cap selected \subseteq a
  /\ (3 \in selected /\ ~(selected \cap {1, 2} \subseteq existing)) => Cardinality(after) > 1

(* Sites: what is kept is of the table, until the table changes. *)
Hosts == [domain : {"a", "b"}, port : {0, 80}]
SiteTables == UNION {[hs -> {1}] : hs \in SUBSET Hosts}
SiteThen(table, asked, host) == Rules!SiteOf(table, Rules!SiteOf(table, <<>>, asked).cache, host)
ASSUME \A table \in SiteTables, asked, host \in Hosts :
  /\ SiteThen(table, asked, host).site =
       IF {host, Rules!Bare(host)} \cap DOMAIN table # {} THEN 1 ELSE nothing
  /\ DOMAIN SiteThen(table, asked, host).cache \subseteq DOMAIN table
ASSUME \A table \in SiteTables, host \in Hosts :
  LET kept == Rules!SiteOf(table, <<>>, host).cache
  IN  Rules!SiteOf([h \in Hosts |-> 2], kept, host).site \in {1, 2}
      /\ ((Rules!SiteOf([h \in Hosts |-> 2], kept, host).site = 1) <=> host \in DOMAIN table)

(* The names a proxy gives its headers are not those asked for; an https host that
   is put together keeps its port. *)
ASSUME \A hs \in SUBSET {"x-forwarded-host", "x-forwarded-proto", "host"} :
  Rules!RawHost([h \in hs |-> h], TRUE) = IF "host" \in hs THEN "host" ELSE nothing
ASSUME \A p \in {80, 443} :
  Rules!RawHost([h \in {"server_name", "server_port"} |-> IF h = "server_name" THEN "a" ELSE p], TRUE)
    = [domain |-> "a", port |-> IF p = 443 THEN 443 ELSE 0]

(* One network with bits of a host lets nobody in, in a list it lets its own. *)
ASSUME \A ip \in 0 .. 15, base \in 0 .. 15 :
  LET nets == {[base |-> base, size |-> 4]} IN
  /\ Rules!SubnetAllowed(ip, nets, TRUE) = (ip \div 4 = base \div 4)
  /\ Rules!SubnetAllowed(ip, nets, FALSE) = (ip \div 4 = base \div 4 /\ base % 4 = 0)

(* Passwords are changed by those who may change the profile; rights by superusers. *)
ASSUME \A u \in Users, p \in {[name |-> n, super |-> FALSE, fio |-> 1] : n \in {"u", "v"}} :
  LET after == Rules!UpdateProfile(u, p, [super |-> TRUE, fio |-> 2]) IN
  /\ (Rules!ChangePassword(u, p, TRUE) = 200) <=> (after # p)
  /\ after.super => u.super

(* Days of birth: the four or five days of leap years are not counted. *)
ASSUME \A leaps \in {4, 5}, early \in 0 .. 7 :
  LET birthday == 10000 + 18 * 365 + leaps IN
  Rules!BirthDayValid(10000, birthday - early) <=> early <= leaps

(* No word of a name is lost. *)
ASSUME \A n \in 0 .. 5 :
  LET fio == Rules!SplitFio(Numbered(n))
      part(x) == IF x = nothing THEN <<>> ELSE <<x>>
  IN  part(fio.surname) \o part(fio.name) \o (IF fio.rest = nothing THEN <<>> ELSE fio.rest) = Numbered(n)

(* A search for the address 10.0.0.1 finds 10.0.0.12 as well; numbers of cards are whole. *)
ASSUME LET ips(r) == [granted |-> {}, sites |-> {1}, ips |-> {r}, texts |-> {}, macs |-> {}]
           boss == [name |-> "b", active |-> TRUE, admin |-> TRUE, super |-> TRUE,
                    perms |-> {}, groups |-> {}, sites |-> {}]
           one == {"1"}  twelve == {"1", "2"}
       IN  Rules!Searched(boss, {ips(one), ips(twelve)}, "view", 1, one, Rules!CustomerFields("ip"))
             = {ips(one), ips(twelve)}

-----------------------------------------------------------------------------
(* Requests of payment systems, one after the other. *)
Pay == INSTANCE PaymentRequests

PayGateways(type) ==
  SUBSET [type : {type}, slug : {"g"}, title : {1, 2}, sites : {{1}, {2}}]
PayDb(active, gateways) ==
  [accounts |-> [x \in {"a"} |-> [active |-> active, sites |-> {1}, balance |-> 0]],
   gateways |-> gateways, logs |-> <<>>,
   trans |-> [x \in {"t"} |-> [state |-> "none", who |-> nothing, amount |-> 0,
                               late |-> FALSE, time |-> nothing]]]
PayDbs(type) == {PayDb(on, gs) : on \in BOOLEAN, gs \in PayGateways(type)}
Off(db) == [db EXCEPT !.accounts["a"].active = FALSE]
Balanced(db) == db.accounts["a"].balance = Pay!Total(db.logs)

(* RNCB: one of its codes or an error of the server; a payment is credited once,
   and what the balance gained is what the bank is told of. *)
RncbRequests ==
  [query : {"check", "pay", "balance", "other"}, valid : BOOLEAN, account : {"a", "b"}, site : {1, 2},
   slug : {"g"}, pay : {1, Pay!MaxPayId}, amount : {0, 5}, day : {3}, from : {2, 4}, to : {4}]
ASSUME \A db \in PayDbs("rncb"), r \in RncbRequests :
  LET first == Pay!Rncb(db, r, 100)
      again == Pay!Rncb(first.db, r, 100)
      off   == Pay!Rncb(Off(first.db), r, 100)
      told  == Pay!RncbBalance(first.db, [r EXCEPT !.from = 2, !.valid = TRUE], 100)
  IN  /\ first.code \in {0, 1, 10, 100, 400, 500}
      /\ first.db = again.db /\ Balanced(first.db)
      /\ first.db # db => first.code = 0 /\ again.code = 10 /\ off.code = 1
      /\ told.code = 0 /\ told.sum = first.db.accounts["a"].balance
      /\ (r.query = "pay" /\ first.code = 500) => Cardinality(db.gateways) # 1

(* AllTime: the same, and a payment that was made can be asked for; the column has
   no room for some. *)
AllTimeRequests ==
  [act : {0, 1, 4, 7}, sign : {TRUE, FALSE, nothing}, account : {"a", "b"}, site : {1, 2}, slug : {"g"},
   pay : {1, nothing}, amount : {0, 5, nothing}, fits : BOOLEAN, day : {3}]
ASSUME \A db \in PayDbs("alltime"), r \in AllTimeRequests :
  LET first == Pay!AllTime(db, r)
      again == Pay!AllTime(first.db, r)
      asked == Pay!AllTime(first.db, [r EXCEPT !.act = 7])
  IN  /\ first.code \in {21, 22, 11, -10, -40, -90, -100, -101, 500}
      /\ first.db = again.db /\ Balanced(first.db)
      /\ (first.code = 22) <=> (first.db # db)
      /\ first.code = 22 => again.code = -100 /\ asked.code = 11
      /\ first.code = 500 => Cardinality(db.gateways) > 1

(* Payme: any calls in any order, with a day that passes and a customer who is
   turned off or removed; what was performed stays, was credited once, and is in
   the statement. *)
PaymeCall(method, amount) ==
  [auth |-> TRUE, post |-> TRUE, method |-> method, valid |-> TRUE, account |-> "a", site |-> 1,
   slug |-> "g", id |-> "t", amount |-> amount, time |-> 300000, from |-> 300000, to |-> 300001,
   pay |-> nothing, day |-> 3]
PaymeCalls == {PaymeCall(m, 5) : m \in {"CheckPerformTransaction", "PerformTransaction",
                 "CancelTransaction", "CheckTransaction", "GetStatement"}}
              \cup {PaymeCall("CreateTransaction", n) : n \in {5, 7}}
              \cup {[method |-> "a day"], [method |-> "off"], [method |-> "removed"]}
PaymeCodes == {0, -32700, -31050, -31051, -31003, -31007, -31008}
PaymeNext(last, call) ==
  LET db == last.db IN
  CASE call.method = "a day"   -> [last EXCEPT !.db.trans["t"].late = db.trans["t"].state # "none"]
    [] call.method = "off"     -> [last EXCEPT !.db.accounts = [x \in DOMAIN @ |-> [@[x] EXCEPT !.active = FALSE]]]
    [] call.method = "removed" -> [last EXCEPT !.db.accounts = <<>>, !.db.trans["t"].who = nothing,
                                     !.db.logs = [i \in DOMAIN @ |-> [@[i] EXCEPT !.who = nothing]]]
    [] OTHER -> LET answer == Pay!Payme(db, call) IN [code |-> answer.code, db |-> answer.db]
PaymeDb == PayDb(TRUE, {[type |-> "payme", slug |-> "g", title |-> 1, sites |-> {1}]})
PaymeReached ==
  LET step(db) == {PaymeNext([code |-> 0, db |-> db], c) : c \in PaymeCalls}
      two  == {r.db : r \in UNION {step(r.db) : r \in step(PaymeDb)}}
      four == {r.db : r \in UNION {step(r.db) : r \in UNION {step(db) : db \in two}}}
  IN  {r.db : r \in UNION {step(r.db) : r \in UNION {step(db) : db \in four}}} \cup two \cup four
ASSUME \A db \in PaymeReached :
  /\ Pay!Total(db.logs) = IF db.trans["t"].state = "performed" THEN db.trans["t"].amount ELSE 0
  /\ "a" \in DOMAIN db.accounts => Balanced(db)
  /\ (db.trans["t"].state # "none") <=> Pay!Payme(db, PaymeCall("GetStatement", 5)).ids = {"t"}
ASSUME \A db \in PaymeReached, c \in PaymeCalls :
  LET after == PaymeNext([code |-> 0, db |-> db], c)
      was == db.trans["t"].state  is == after.db.trans["t"].state
  IN  /\ after.code \in PaymeCodes
      /\ was \in {"performed", "cancelled"} => is = was
      /\ (is = "performed" /\ was # "performed") => ~db.trans["t"].late
ASSUME \A c \in {x \in PaymeCalls : "auth" \in DOMAIN x}, auth, post, valid \in BOOLEAN :
  LET code == Pay!Payme(PaymeDb, [c EXCEPT !.auth = auth, !.post = post, !.valid = valid]).code IN
  IF ~auth THEN code = -32504 ELSE IF ~post THEN code = -32300
  ELSE ~valid => code = -32700
(* Without a time, or with one end of an interval, there is no code to answer. *)
ASSUME Pay!Payme(PaymeDb, [PaymeCall("CreateTransaction", 5) EXCEPT !.time = nothing]).code = 500
ASSUME Pay!Payme(PaymeDb, [PaymeCall("GetStatement", 5) EXCEPT !.from = nothing]).code = 500
ASSUME \A hours \in {0, 262966, 4645893} : ~Pay!TimeValid(hours) /\ Pay!TimeValid(262967)

(* The report: all payments of the interval, each in one group. *)
PayLogs == UNION {[1 .. n -> [type : {"rncb"}, pay : {1}, who : {"a", nothing}, amount : {1, 5},
                              day : {3, 6, 40}, slug : {"g"}]] : n \in 0 .. 3}
ASSUME \A logs \in PayLogs, groupBy \in 0 .. 4, to \in {5, nothing} :
  LET r == [from |-> 3, to |-> to, slug |-> nothing, groupBy |-> groupBy]
      db == [PayDb(TRUE, {}) EXCEPT !.logs = logs]
      groups == Pay!Report(db, r)
      sum(gs) == MapThenFoldSet(LAMBDA x, y : x + y, 0, LAMBDA g : g.sum, LAMBDA left : CHOOSE g \in left : TRUE, gs)
  IN  /\ groupBy # 0 => sum(groups) = Pay!Total(SelectSeq(logs,
                           LAMBDA l : l.day \in 3 .. (IF to = nothing THEN 40 ELSE to)))
      /\ \A shown \in Pay!ShownGroups(groups, 1) : sum(shown) <= sum(groups)
      /\ Cardinality(groups) > 1 => \A shown \in Pay!ShownGroups(groups, 1) : sum(shown) < sum(groups)

-----------------------------------------------------------------------------
(* The desk of customers. *)
Desk == INSTANCE CustomerDesk

Buyers == [{1, 2} -> [group : {1, nothing}, service : {1, 2, nothing}, active : BOOLEAN, address : {3},
                      username : {{"x"}}, fio : {{"x", "y"}}, telephone : {{}}, description : {{}},
                      device : {1}, port : {1, 2}]]
DeskAsks == [house : {nothing, 0, 3}, street : {nothing, 4}, address : {nothing, 3},
             filters : {[none \in {} |-> 0], [group |-> 1], [group |-> 1, service |-> 2]},
             text : {nothing, "x", "z"}]
DeskStaff == [superuser : BOOLEAN, byObject : BOOLEAN]
SameBuyers == {c \in Buyers : c[1].active /\ c[2].active /\ c[1].port = 1}

(* Nothing is listed that is not seen; a text makes a filtered list longer; a house
   is stronger than a street; a list by place and text together has no answer. *)
ASSUME \A c \in SameBuyers, seen \in SUBSET {1, 2}, r \in DeskAsks, s \in DeskStaff :
  LET under == [a \in {3, 4} |-> {a}]
      got == Desk!Customers(c, seen, r, s, under)
      plain == Desk!Customers(c, seen, [r EXCEPT !.text = nothing], s, under)
      placed == r.house = 3 \/ r.street # nothing \/ r.address # nothing
  IN  /\ got.rows \subseteq seen
      /\ (got.status = 500) <=> (placed /\ (r.text # nothing \/ (~s.superuser /\ s.byObject)))
      /\ (got.status = 200 /\ DOMAIN r.filters # {}) => plain.rows \subseteq got.rows
      /\ (got.status = 200 /\ r.house # 3 /\ r.street = 4) => got.rows = {}
      /\ (got.status = 200 /\ ~placed /\ r.text = "z" /\ DOMAIN r.filters = {}) => got.rows = {}
      /\ (got.status = 200 /\ ~placed /\ r.text = "x") => got.rows = seen

(* Services of a group: one way of setting them ends those of other sites, the other
   keeps them; who sees all gets the same from both. *)
ASSUME \A has, seen, wanted \in SUBSET (1 .. 3), group \in {1, 2}, super \in BOOLEAN :
  LET page  == Desk!AttachServices(has, group, {1}, wanted, seen)
      other == Desk!Accessory(has, group, {1}, wanted, seen, super, 1 .. 2)
      shown == Desk!GroupServices(has, group, {1}, seen)
  IN  /\ group = 2 => {page.status, other.status, shown.status} = {404} /\ page.after = has /\ other.after = has
      /\ group = 1 => /\ page.after \subseteq seen
                      /\ other.status = 204 => wanted \subseteq other.after
                      /\ ~super => has \ seen \subseteq other.after
                      /\ other.status = 500 => other.after = has \ ((IF super THEN 1 .. 3 ELSE seen) \ wanted)
                      /\ (seen = 1 .. 3 /\ other.status = 204) => page.after = other.after
                      /\ Desk!AttachServices(has, 1, {1}, {s.service : s \in {x \in shown.rows : x.check}}, seen).after
                           = has \cap seen

(* Numbers of the reports, of groups and of the log. *)
DeskServices == [s \in 1 .. 2 |-> [admin |-> s = 2, cost |-> s - 1, kind |-> s]]
ASSUME \A c \in Buyers :
  LET types == Desk!ServiceTypes(c, DeskServices, {1, 2})
      act   == Desk!Activity(c, DeskServices, [i \in {1, 2} |-> i - 1])
  IN  /\ types.kinds[1] + types.kinds[2] = types.all /\ types.free = types.kinds[1]
      /\ types.admin + types.free = types.all /\ types.all = act.services
      /\ act.active <= act.services /\ act.services <= act.enabled /\ act.enabled <= act.all
      /\ act.commercial + types.admin + types.free = types.all
      /\ Desk!GroupsWithCustomers({1}, c).rows =
           IF c[1].group = 1 \/ c[2].group = 1
           THEN {[group |-> 1, count |-> IF c[1].group = c[2].group THEN 2 ELSE 1]} ELSE {}
      /\ Desk!ServiceUsers(c, {1}, 1).rows \cup Desk!ServiceUsers(c, {1}, 2).rows
           = {i \in {1} : c[i].service # nothing}
      /\ Desk!OnPort(c, {1, 2}, 1, 1).rows \cap Desk!OnPort(c, {1, 2}, 1, 2).rows = {}
      /\ \A who \in {1, 2} : (Desk!CurrentService(c, {1}, who).status = 404) <=> (who = 2)
DeskLog == <<[customer |-> 1, id |-> 1], [customer |-> 2, id |-> 2], [customer |-> 1, id |-> 3]>>
ASSUME Desk!PaymentLog(DeskLog, 1, {1}).rows = <<DeskLog[3], DeskLog[1]>>
ASSUME {Desk!PaymentLog(DeskLog, 2, {1}).status, Desk!Afk.status, Desk!WithoutAddress.status} = {500}

(* A ping is answered when a lease answers before another ends the search. *)
ASSUME \A l \in UNION {[1 .. n -> {"answers", "silent", "locked", "error"}] : n \in 0 .. 3} :
  Desk!Ping(l) <=> \E i \in DOMAIN l : l[i] = "answers" /\ \A j \in 1 .. (i - 1) : l[j] = "silent"

(* Passports: set twice is set once, what is not given stays, others are untouched. *)
DeskGiven == {[none \in {} |-> 0], [number |-> 1], [number |-> 2, date |-> 3]}
DeskPassports == UNION {[who -> [number : {0, 1}, date : {0}]] : who \in SUBSET {1, 2}}
ASSUME \A ps \in DeskPassports, given \in DeskGiven, seen \in SUBSET {1, 2} :
  LET once  == Desk!SetPassport(ps, [number |-> 9, date |-> 9], 1, seen, given)
      twice == Desk!SetPassport(once.after, [number |-> 9, date |-> 9], 1, seen, given)
  IN  /\ twice.after = once.after /\ twice.status = IF 1 \in seen THEN 200 ELSE 404
      /\ (once.status = 201) <=> (1 \in seen /\ 1 \notin DOMAIN ps)
      /\ 1 \in seen => Desk!Passport(once.after, 1, seen).rows = {once.after[1]}
      /\ \A f \in {"number", "date"} \ DOMAIN given :
           1 \in DOMAIN ps => once.after[1][f] = ps[1][f]
      /\ 2 \in DOMAIN ps => once.after[2] = ps[2]

ASSUME \A names \in SUBSET {"icon_fire", "icon_ok", "other"}, seen \in SUBSET {1} :
  LET set == Desk!SetMarkers({"icon_tv"}, 1, seen, names)
  IN  set.after = IF seen = {1} /\ "other" \notin names THEN names ELSE {"icon_tv"}

(* The token by telephone is of one who has the number twice. *)
ASSUME \A q \in [1 .. 2 -> [telephone : {7, 8}, main : {7, 8}, customer : {1, 2}]], phone \in {7, 8} :
  LET token == Desk!TokenByPhone(q, [c \in {1} |-> 100 + c], phone)
  IN  token # nothing => \E i \in {1, 2} : q[i] = [telephone |-> phone, main |-> phone, customer |-> 1]
ASSUME Desk!TokenByPhone(<<[telephone |-> 7, main |-> 8, customer |-> 1]>>, [c \in {1} |-> 101], 7) = nothing
ASSUME \A raw \in UNION {[who -> {"p", "q"}] : who \in SUBSET {1, 2}}, password \in {"p", nothing} :
  LET after == Desk!UpdatePassword(raw, 1, password)
  IN  IF password = nothing THEN after = raw
      ELSE after[1] = "p" /\ (2 \in DOMAIN raw => 2 \in DOMAIN after /\ after[2] = raw[2])

DeskFiles == [customer : {1, 2}, id : {1, 2}]
ASSUME \A files \in SUBSET DeskFiles, new \in DeskFiles, granted \in {{}, DeskFiles} :
  LET added == Desk!Attach(files, new, {1})
  IN  /\ (added.status = 201) <=> (new.customer = 1)
      /\ Desk!Detach(added.after, new, granted).after
           = IF granted = {} \/ (added.status = 500 /\ new \notin files) THEN added.after ELSE files \ {new}
      /\ Desk!AttachmentsOf(files, 1).rows \cup Desk!AttachmentsOf(files, 2).rows = files
ASSUME Desk!Telephones([t \in 1 .. 3 |-> [customer |-> 1]], {1, 2}, 1).rows = {1, 2}
ASSUME Desk!PeriodicPays([p \in 1 .. 3 |-> [account |-> IF p = 3 THEN 2 ELSE 1]], {1}, 1).rows = {1, 2}
ASSUME Desk!PeriodicPays([p \in 1 .. 3 |-> [account |-> 2]], {1}, 2).rows = {}

(* Dynamic fields: one content of a field of a customer; what the page was given is
   found again; a number of somebody else's content changes that. *)
DeskFields == [f \in {1, 2} |-> [groups |-> {1}]]
DeskContents == UNION {[ids -> [customer : {1, 2}, field : {1, 2}, content : {0}]] : ids \in {{}, {1}, {1, 2}}}
OneContent(cs) == \A i, j \in DOMAIN cs :
  (cs[i].customer = cs[j].customer /\ cs[i].field = cs[j].field) => i = j
DeskWrites == [id : {nothing, 1}, customer : {1}, field : {1, 2}, content : {5}]
ASSUME \A cs \in {x \in DeskContents : OneContent(x)}, rows \in UNION {[1 .. n -> DeskWrites] : n \in 0 .. 2} :
  LET got == Desk!UpdateAll(cs, rows)
      after == got.after
  IN  /\ OneContent(after) /\ DOMAIN cs \subseteq DOMAIN after
      /\ \A i \in DOMAIN cs : after[i].customer = cs[i].customer /\ after[i].field = cs[i].field
      /\ got.status = 200 => Cardinality(DOMAIN after) =
           Cardinality(DOMAIN cs) + Cardinality({n \in DOMAIN rows : rows[n].id = nothing})
      /\ (1 \in DOMAIN cs /\ rows # <<>> /\ rows[1].id = 1) => after[1].content = 5
      /\ \A shown \in Desk!Combine(DeskFields, after, 1, 1) :
           (shown.id = nothing) <=> ~\E i \in DOMAIN after : after[i].customer = 1 /\ after[i].field = shown.field
ASSUME {shown.field : shown \in Desk!Combine(DeskFields, <<>>, 1, 2)} = {}

-----------------------------------------------------------------------------
(* The desk of technicians. *)
Tech == INSTANCE TaskDesk

TechRow == [state : Tech!States, author : {1, 2}, recipients : {{1}, {2}, {1, 2}}, customer : {1, 2},
            site : {1, 2}, mode : {1, nothing}, comments : {0, 2}, files : {1, 2}]
TechRows == {r \in TechRow : r.comments = 0 /\ r.files = 1}
TechTasks1 == UNION {[ids -> {r \in TechRows : r.author = 1 /\ r.site = 1}] : ids \in {{}, {1}, {1, 2}}}
TechUser == [id : {1, 2}, superuser : BOOLEAN]
Unfiltered == [state |-> nothing, recipient |-> nothing, customer |-> nothing]

(* The lists of a technician are those of his three states; whoever is no superuser
   is shown one site. *)
ASSUME \A r \in TechRow, granted \in {{}, {1}}, user \in TechUser :
  LET tasks == [t \in {1} |-> r]
      rows  == Tech!All(tasks, granted, user, 1, Unfiltered)
      List(which) == Tech!Listed(tasks, rows, user, which)
  IN  /\ List("get_new") \cup List("get_failed") \cup List("get_finished") = List("get_my")
      /\ List("get_new") = List("get_my") \cap List("get_all_new")
      /\ List("get_failed") \cap List("get_finished") = {}
      /\ List("get_own") \cap List("get_finished") = {}
      /\ \A which \in {"get_all", "get_own"} : List(which) \subseteq granted
      /\ (rows # {} /\ r.site = 2) => user.superuser
      /\ (Tech!ActiveCount(tasks, user) = 1) <=> (user.id \in r.recipients /\ r.state = Tech!New)
      /\ \A f \in [state : {0, nothing}, recipient : {1, nothing}, customer : {2, nothing}] :
           (Tech!All(tasks, granted, user, 1, f) = {}) <=>
             \/ rows = {}
             \/ f.state = 0 /\ r.state # 0
             \/ f.customer = 2 /\ r.customer # 2
             \/ f.recipient = 1 /\ 1 \notin r.recipients
      /\ Tech!OfCustomer(tasks, rows, 1) \cup Tech!OfCustomer(tasks, rows, 2) = rows
(* The numbers of a row are right when there is one of the other kind, or none. *)
ASSUME \A r \in TechRow :
  LET counts == Tech!Counts(r)
  IN  /\ (counts.comments = r.comments) <=> (r.files = 1 \/ r.comments = 0)
      /\ (counts.files = r.files) <=> (r.comments = 0)
(* A row without a group of its customer can be listed and not opened. *)
ASSUME \A tasks \in TechTasks1, t \in {1, 2}, group \in {7, nothing} :
  (Tech!Details(tasks, DOMAIN tasks, t, [c \in {1, 2} |-> group]) = 200)
     <=> (t \in Tech!History(tasks, 1) \cup Tech!History(tasks, 2) /\ group = 7)

(* Comments: all that are granted and all changes, the latest first; removed by the
   author only; the list by task finds the comment with that number. *)
TechComments == UNION {[1 .. n -> [id : {1, 2}, task : {1, 2}, author : {1, 2}, at : {1, 3}]] : n \in 0 .. 2}
TechLogs     == UNION {[1 .. n -> [task : {1, 2}, at : {2, 4}]] : n \in 0 .. 2}
ASSUME \A cs \in TechComments, ls \in TechLogs :
  LET user  == [id |-> 1, superuser |-> FALSE]
      shown == Tech!Combined(cs, ls, {1}, 1, user)
  IN  /\ \A i, j \in DOMAIN shown : i < j => shown[i].at >= shown[j].at
      /\ Len(shown) = Cardinality({i \in DOMAIN cs : cs[i].id = 1 /\ cs[i].task = 1})
                    + Cardinality({i \in DOMAIN ls : ls[i].task = 1})
      /\ \A i \in DOMAIN shown : shown[i].type = "comment" =>
           (shown[i].remove => \E c \in DOMAIN cs : cs[c].author = 1 /\ cs[c].at = shown[i].at)
ASSUME \A cs \in TechComments, granted \in {{1}, {1, 2}}, user \in TechUser, c \in 1 .. 3 :
  LET after == Tech!DeleteComment(cs, granted, c, user)
      listed == Tech!Comments(cs, DOMAIN cs \cap granted, c, nothing, {"id"})
      forms  == Tech!Comments(cs, DOMAIN cs \cap granted, nothing, nothing, {})
  IN  /\ (after.status = 204) <=> (c \in DOMAIN cs \cap granted /\ cs[c].author = user.id)
      /\ DOMAIN after.after = IF after.status = 204 THEN DOMAIN cs \ {c} ELSE DOMAIN cs
      /\ listed.rows = {c} \cap DOMAIN cs \cap granted
      /\ (forms.status = 500) <=> (DOMAIN cs \cap granted # {})
      /\ Tech!Comments(cs, DOMAIN cs, 0, 1, {"author_id"}).rows = {i \in DOMAIN cs : cs[i].author = 1}
ASSUME \A new \in [task : {1, 2}, author : {1, 2}], granted \in {{}, [task : {1, 2}, author : {1, 2}]}, user \in TechUser :
  LET added == Tech!AddOf({}, new, [t \in {1} |-> 0])
      gone  == Tech!DeleteFile(added.after, granted, new, user)
  IN  /\ Tech!FilesOf(added.after, 1) = IF new.task = 1 THEN {new} ELSE {}
      /\ (gone.status = 204) <=> (new.task = 1 /\ granted # {} /\ new.author = user.id)
      /\ gone.after = IF gone.status = 204 THEN {} ELSE added.after

(* At most one finish document of a task, with people who are there. *)
TechDocs == [task : {1, 2, 3}, recipients : {{}, {1}, {1, 9}}]
ASSUME \A q \in [1 .. 3 -> TechDocs] :
  LET Make(docs, d) == Tech!FinishDocument(docs, d, [t \in {1, 2} |-> 0], {1, 2}).after
      docs == Make(Make(Make({}, q[1]), q[2]), q[3])
  IN  /\ \A d, e \in docs : d.task = e.task => d = e
      /\ \A d \in docs : d.recipients \subseteq {1, 2}
      /\ {d.task : d \in docs} = {q[i].task : i \in {j \in 1 .. 3 : q[j].recipients # {1, 9}}} \ {3}

(* What is asked before a task is made, reminders, reports. *)
TechPeople == [p \in 1 .. 3 |-> [active |-> p # 3, admin |-> p # 2, groups |-> {7}]]
ASSUME \A tasks \in TechTasks1 :
  LET initial == Tech!Initial(tasks, TechPeople, 7, 1)
      percent == Tech!StatePercent(tasks)
      modes   == Tech!ModeReport(tasks, [m \in {1} |-> "Repair"])
      boss    == [id |-> 1, superuser |-> TRUE]
  IN  /\ (initial.status = 0) <=> \E t \in DOMAIN tasks : tasks[t].customer = 1 /\ tasks[t].state = Tech!New
      /\ initial.status = 0 => tasks[initial.task].state = Tech!New
      /\ initial.status = 1 => initial.recipients = {1}
      /\ (percent = nothing) <=> (tasks = <<>>)
      /\ percent # nothing =>
           LET Sum(n) == n[0] + n[1] + n[2] IN
           /\ Sum([s \in Tech!States |-> percent[s].count]) = Cardinality(DOMAIN tasks)
           /\ Sum([s \in Tech!States |-> percent[s].percent]) = 100000000
      /\ {modes[m].mode : m \in DOMAIN modes} \subseteq {"Repair", "Not Found"}
      /\ \A m \in DOMAIN modes : modes[m].count \in 1 .. Cardinality(DOMAIN tasks)
      /\ Tech!Remind(tasks, 1, [boss EXCEPT !.superuser = FALSE], {1, 2}) = 403
      /\ Tech!Remind(tasks, 1, boss, {2}) \in {404, 500}
      /\ Tech!Remind(tasks, 1, boss, {1}) = 204 => 1 \in tasks[1].recipients

(* Each change of a state alone has a text of its own, and the unknown one is for
   none of them. *)
StateChange(from, to) == [task_state |-> [from |-> from, to |-> to]]
ASSUME \A from, to, from2, to2 \in Tech!States :
  LET text == Tech!ChangeText(StateChange(from, to))
  IN  /\ text # "unknown" /\ (text = "general" <=> from = to)
      /\ (from # to /\ text = Tech!ChangeText(StateChange(from2, to2))) => <<from, to>> = <<from2, to2>>
      /\ Tech!ChangeText(StateChange(from, to) @@ [out_date |-> [from |-> 1, to |-> 2]]) = "general"
ASSUME Tech!ChangeText([none \in {} |-> 0]) = nothing
ASSUME Tech!ChangeText([out_date |-> [from |-> 1, to |-> 2]]) = "general"
ASSUME \A day, today \in 0 .. 3 :
  /\ Tech!Expired(day, today) => "over" \in DOMAIN Tech!TimeLeft(day, today)
  /\ "over" \in DOMAIN Tech!TimeLeft(day, today) <=> day <= today
  /\ ~Tech!Expired(nothing, today) /\ Tech!TimeLeft(nothing, today) = nothing
ASSUME Tech!ShownOf(nothing, "a") = "" /\ Tech!ShownOf(1, "a") = "a"
=============================================================================
