---------------------------- MODULE ExportFormats ----------------------------
(***************************************************************************)
(* The formats of the files for the authority (src/apps/sorm_export        *)
(* /serializers) and the rows the exports fill them from (hier_export).    *)
(* A record that is refused is logged and left out by the exports of       *)
(* tables, and stops the ones that are given their data.  No state: which  *)
(* fields of which file can be refused follows from the two descriptions.  *)
(*                                                                         *)
(* Fields the exports never fill are left out: they have a default.        *)
(***************************************************************************)
EXTENDS Integers, TLC

-----------------------------------------------------------------------------
(* What a serializer field asks for.  NoMax: any length. *)

NoMax == 9999
Field(kind, max, required, null, blank) ==
  [kind |-> kind, max |-> max, required |-> required, null |-> null, blank |-> blank]
Text(max)   == Field("text", max, TRUE, FALSE, FALSE)
Maybe(max)  == Field("text", max, FALSE, FALSE, FALSE)   \* a default, but neither None nor ''
Loose(max)  == Field("text", max, FALSE, TRUE, TRUE)
Digits(max) == Field("digits", max, FALSE, FALSE, FALSE) \* integer_validator
Number      == Field("number", NoMax, TRUE, FALSE, FALSE)
NumberOrNull == Field("number", NoMax, FALSE, TRUE, FALSE)
Date        == Field("date", NoMax, TRUE, FALSE, FALSE)
DateOrNull  == Field("date", NoMax, FALSE, TRUE, FALSE)
Money(max)  == Field("number", max, TRUE, FALSE, FALSE)  \* digits before the point

(* What a column, or what is made of columns, can give: the states besides "given"
   it may be in, its length, and whether it has digits only. *)
Column(states, max, digits) == [states |-> states, max |-> max, digits |-> digits]
Filled(max) == Column({}, max, FALSE)
Null(max)   == Column({"null"}, max, FALSE)
Blank(max)  == Column({"blank"}, max, FALSE)
Both(max)   == Column({"null", "blank"}, max, FALSE)
Key         == Column({}, 10, TRUE)
NullKey     == Column({"null"}, 10, TRUE)
Moment      == Column({}, 19, TRUE)
NullMoment  == Column({"null"}, 19, TRUE)

Value(state, len, digits) == [state |-> state, len |-> len, digits |-> digits]
Values(c) ==
  {Value(s, 0, FALSE) : s \in c.states}
    \cup {Value("given", l, d) : l \in {1, c.max}, d \in IF c.digits THEN {TRUE} ELSE BOOLEAN}

Accepts(f, v) ==
  CASE v.state = "missing" -> ~f.required
    [] v.state = "null" -> f.null
    [] v.state = "blank" -> f.kind = "text" /\ f.blank
    [] OTHER -> v.len <= f.max /\ (f.kind \in {"digits", "number"} => v.digits)

(* The fields of a file that can be refused, given what fills them. *)
Refusable(format, row) ==
  {f \in DOMAIN row : \E v \in Values(row[f]) : ~Accepts(format[f], v)}

-----------------------------------------------------------------------------
(* Titles of addresses are texts, some of them asked for as numbers; the full
   title joins the titles up to the country. *)
Title      == Filled(128)
BlankTitle == Blank(128)
NullTitle  == Null(128)
FullTitle  == Filled(10 * 128)

RootFormat == [customer_id |-> Text(64), legal_customer_id |-> Maybe(64),
  contract_start_date |-> Date, customer_login |-> Text(256), communication_standard |-> Number]
RootRow == [customer_id |-> Key, legal_customer_id |-> Key, contract_start_date |-> Moment,
  customer_login |-> Filled(127), communication_standard |-> Key]

ContractFormat == [contract_id |-> Text(64), customer_id |-> Text(64), contract_start_date |-> Date,
  contract_end_date |-> DateOrNull, contract_number |-> Maybe(128), contract_title |-> Maybe(256)]
ContractRow == [contract_id |-> Key, customer_id |-> Key, contract_start_date |-> Moment,
  contract_end_date |-> NullMoment, contract_number |-> Filled(64), contract_title |-> Filled(64)]

AddressFormat == [address_id |-> Text(128), parent_id |-> [Maybe(128) EXCEPT !.blank = TRUE],
  type_id |-> Number, region_type |-> Text(128), title |-> Text(128), full_title |-> Maybe(512)]
AddressRow == [address_id |-> Key, parent_id |-> Column({"blank"}, 10, TRUE), type_id |-> Key,
  region_type |-> Filled(10), title |-> Title, full_title |-> FullTitle]

(* "builing" is no field of the format: the building never leaves. *)
AccessPointFormat == [ap_id |-> Text(128), customer_id |-> Text(64), house |-> Number,
  full_address |-> Loose(512), parent_id_ao |-> Text(128), house_num |-> NumberOrNull,
  building |-> NumberOrNull, building_corpus |-> Loose(32),
  actual_start_time |-> Date, actual_end_time |-> DateOrNull]
AccessPointRow == [ap_id |-> Key, customer_id |-> Key, house |-> Title, full_address |-> FullTitle,
  parent_id_ao |-> Key, house_num |-> NullTitle, building_corpus |-> NullTitle,
  actual_start_time |-> Moment, actual_end_time |-> NullMoment]

-----------------------------------------------------------------------------
(* A person: the words of the full name, the passport, the address in it.  A name
   of one word is the name; one of none leaves the field out. *)

PersonFormat == [contract_id |-> Text(64), name |-> Text(64), last_name |-> Maybe(64),
  surname |-> Loose(64), birthday |-> DateOrNull]
PassportFormat == [document_serial |-> Digits(32), document_number |-> Digits(64),
  document_distributor |-> Maybe(128), passport_code |-> Loose(16),
  passport_date |-> [DateOrNull EXCEPT !.null = FALSE]]
HomeFormat == [house |-> Loose(32), parent_id_ao |-> Loose(128), house_num |-> NumberOrNull,
  building |-> NumberOrNull, building_corpus |-> Loose(32),
  actual_start_time |-> Date, customer_id |-> Text(64)]
IndividualFormat == PersonFormat @@ PassportFormat @@ HomeFormat

NameRow == [name |-> Column({"missing"}, 256, FALSE), last_name |-> Filled(256), surname |-> Filled(256)]
PassportRow == [document_serial |-> Column({}, 4, TRUE), document_number |-> Column({}, 6, TRUE),
  document_distributor |-> Filled(512), passport_code |-> Blank(64), passport_date |-> Moment]
IndividualRow == NameRow @@ PassportRow @@
  [contract_id |-> Key, birthday |-> NullMoment, house |-> Title, parent_id_ao |-> Key,
   house_num |-> NullTitle, building |-> NullTitle, building_corpus |-> NullTitle,
   actual_start_time |-> Moment, customer_id |-> Key]

(* A contact: the full name and a telephone, that may be missing as well. *)
ContactFormat == [customer_id |-> Text(64), contact |-> Text(128), actual_start_time |-> Date]
ContactRow == [customer_id |-> Key, contact |-> Filled(256 + 1 + 16), actual_start_time |-> Moment]

-----------------------------------------------------------------------------
(* A legal entity: three addresses, each with its index, and the bank. *)

EntityFormat == [legal_id |-> Text(64), legal_title |-> Text(256), inn |-> Maybe(32),
  actual_start_time |-> Date, actual_end_time |-> DateOrNull, customer_id |-> Text(64)]
PlaceFormat == [index |-> Digits(6), office |-> [Maybe(32) EXCEPT !.blank = TRUE],
  parent |-> Text(128), house |-> NumberOrNull, building |-> NumberOrNull,
  corpus |-> Loose(32), full |-> Maybe(NoMax)]
BankFormat == [customer_bank |-> Maybe(256), customer_bank_num |-> Loose(128)]

EntityRow == [legal_id |-> Key, legal_title |-> Filled(256), inn |-> Column({}, 32, TRUE),
  actual_start_time |-> Moment, actual_end_time |-> NullMoment, customer_id |-> Key]
(* The corpus of the post address is filled from its building. *)
PlaceRow == [index |-> Both(6), office |-> BlankTitle, parent |-> Key, house |-> NullTitle,
  building |-> NullTitle, corpus |-> BlankTitle, full |-> FullTitle]
BankRow == [customer_bank |-> Filled(64), customer_bank_num |-> Null(64)]

-----------------------------------------------------------------------------
(* Switches, gateways, pools, leases, payments, services, telephone numbers. *)

SwitchFormat == [title |-> Text(128), switch_type |-> Text(NoMax), network_type |-> Text(NoMax),
  description |-> Text(256), place |-> Text(1024), start_usage_time |-> Date,
  end_usage_time |-> DateOrNull]
SwitchRow == [title |-> Filled(17), switch_type |-> Filled(8), network_type |-> Filled(8),
  description |-> Filled(256), place |-> FullTitle, start_usage_time |-> Moment]

GatewayFormat == [gw_id |-> Number, gw_type |-> Text(NoMax), descr |-> Text(256),
  gw_addr |-> Text(1024), start_use_time |-> Date, deactivate_time |-> DateOrNull,
  ip_addrs |-> Text(1024)]
GatewayRow == [gw_id |-> Key, gw_type |-> Filled(8), descr |-> Filled(127), gw_addr |-> Both(256),
  start_use_time |-> Moment, ip_addrs |-> Filled(50)]

PoolFormat == [ip_net |-> Text(NoMax), descr |-> Text(256), start_usage_time |-> Date,
  end_usage_time |-> DateOrNull]
PoolRow == [ip_net |-> Filled(43), descr |-> Filled(17), start_usage_time |-> Moment]

(* Only leases that have a time and a customer are exported. *)
LeaseFormat == [customer_id |-> Text(64), ip_addr |-> Text(NoMax), ip_addr_type |-> Number,
  assign_time |-> Date, dead_time |-> DateOrNull, mac_addr |-> Loose(NoMax)]
LeaseRow == [customer_id |-> Key, ip_addr |-> Filled(39), ip_addr_type |-> Key,
  assign_time |-> Moment, mac_addr |-> Null(17)]

(* The customer of a payment may have been removed; 19 digits with 6 after the
   point are kept, 11 with 6 are told. *)
PaymentFormat == [customer_id |-> Text(64), pay_time |-> Date, amount |-> Money(11 - 6),
  pay_description |-> Text(256), pay_params |-> Loose(512)]
PaymentRow == [customer_id |-> NullKey, pay_time |-> Moment, amount |-> Column({}, 19 - 6, TRUE),
  pay_description |-> Filled(11), pay_params |-> Filled(150)]

ServiceFormat == [service_id |-> Number, idents |-> Text(128), parameter |-> Text(256),
  begin_time |-> Date, end_time |-> DateOrNull]
ServiceRow == [service_id |-> Key, idents |-> Key, parameter |-> Filled(40), begin_time |-> NullMoment]
NomenclatureFormat == [service_id |-> Number, mnemonic |-> Text(64), description |-> Maybe(256),
  begin_time |-> Date, operator_type_id |-> Maybe(NoMax)]
NomenclatureRow == [service_id |-> Key, mnemonic |-> Filled(8), description |-> Filled(34),
  begin_time |-> Moment, operator_type_id |-> Filled(8)]

SpecialFormat == [tel_number |-> [Digits(NoMax) EXCEPT !.required = TRUE], description |-> Text(NoMax),
  start_time |-> Date]
SpecialRow == [tel_number |-> Column({"blank"}, 20, TRUE), description |-> Blank(200),
  start_time |-> Moment]

AaaFormat == [event_type |-> Number, session_id |-> Text(NoMax), customer_ip |-> Text(NoMax),
  customer_db_username |-> Text(NoMax), nas_port |-> Number, input_octets |-> Number,
  output_octets |-> Number, customer_device_mac |-> [Maybe(NoMax) EXCEPT !.blank = TRUE]]
AaaRow == [event_type |-> Key, session_id |-> Filled(36), customer_ip |-> Filled(39),
  customer_db_username |-> Filled(127), nas_port |-> Key, input_octets |-> Key,
  output_octets |-> Key, customer_device_mac |-> Blank(17)]
=============================================================================
