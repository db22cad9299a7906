------------------------------ MODULE OrderIntake ------------------------------
(***************************************************************************)
(* Orders and their customers. OrderRepository.create writes an order in   *)
(* one transaction, statement by statement, on one connection of a pool;   *)
(* IdempotencyGate (and IdempotencyEngine, its twin) checks a key before   *)
(* and registers it after; POST /api/customers of src/server.ts inserts    *)
(* customers beside them, and answers even when it could not.              *)
(*                                                                         *)
(* Nothing in the repository puts gate and repository together: the caller *)
(* here does so in the only order their methods allow, on one pool: a      *)
(* statement of the gate takes a connection and gives it back, an order    *)
(* keeps one from BEGIN on, also while it waits for a row. Isolation is    *)
(* READ COMMITTED, phones are unique (customers_phone_unique).             *)
(***************************************************************************)
EXTENDS Integers, Sequences, FiniteSets

CONSTANTS
  Requests, Keys,
  OrderOf,         \* the order each key is used for: customerPhone, items, salesmanId, totalAmount
  Salesmen,        \* commission_rate, in percent, by salesman
  NoSalesman,
  Products,
  Calls, PhoneOf,  \* calls of POST /api/customers; NoPhone is a body without one
  NoPhone, NoKey,
  PoolSize, ApiPoolSize

ASSUME PoolAssumption == PoolSize \in Nat \ {0} /\ ApiPoolSize \in Nat \ {0}
ASSUME OrdersAssumption == \A k \in Keys : OrderOf[k].items \in Seq(Products)

VARIABLES
  db,        \* committed rows
  tx,        \* rows of each open transaction
  at, keyOf,
  item,      \* the item the loop is at
  post,      \* where each call of POST /api/customers is
  listed,    \* products that were added
  excused    \* history: keys of requests that overlapped, or broke before register

intakeVars == <<db, tx, at, keyOf, item, post, listed, excused>>

Order(r) == OrderOf[keyOf[r]]
InTx == {r \in Requests : at[r] \in {"upsert", "order", "items", "sale", "commission", "commit"}}
Busy(k) == {r \in Requests : keyOf[r] = k /\ (r \in InTx \/ at[r] \in {"allowed", "register"})}
ConnectionFree == Cardinality(InTx) < PoolSize
To(r, place) == at' = [at EXCEPT ![r] = place]

KeyRow(k)      == <<"idempotency_keys", k>>
CustomerRow(p) == <<"customers", p>>
OrderRow(r)    == <<"orders", r>>
ItemRow(r, i)  == <<"order_items", r, i>>
EntryRow(r, type, amount) == <<"ledger_entries", r, type, amount>>

\* The row lock of a phone belongs to the transaction that upserted it.
PhoneFree(phone) == \A q \in InTx : at[q] # "upsert" => Order(q).customerPhone # phone

\* Statements run on the connection of the transaction, and commit with it.
Outside(r, row) == db' = db \cup {row} /\ tx' = tx                   \* mutant
Insert(r, row)  == tx' = [tx EXCEPT ![r] = @ \cup {row}] /\ db' = db

-----------------------------------------------------------------------------
IntakeInit ==
  /\ db = {} /\ tx = [r \in Requests |-> {}]
  /\ at = [r \in Requests |-> "idle"] /\ keyOf = [r \in Requests |-> NoKey]
  /\ item = [r \in Requests |-> 1]
  /\ post = [c \in Calls |-> "idle"]
  /\ listed = {} /\ excused = {}

\* ProductRepository.add
AddProduct(p) ==
  /\ p \notin listed
  /\ listed' = listed \cup {p}
  /\ UNCHANGED <<db, tx, at, keyOf, item, post, excused>>

\* allow, and isDuplicate the other way round.
isDuplicate(k) == KeyRow(k) \in db
allow(r, k) ==
  /\ at[r] = "idle" /\ ConnectionFree
  /\ keyOf' = [keyOf EXCEPT ![r] = k]
  /\ To(r, IF isDuplicate(k) THEN "refused" ELSE "allowed")
  /\ excused' = IF Busy(k) = {} THEN excused ELSE excused \cup {k}
  /\ UNCHANGED <<db, tx, item, post, listed>>

RegisterFirst(r) ==                                                  \* mutant
  /\ at[r] = "allowed" /\ ConnectionFree
  /\ Outside(r, KeyRow(keyOf[r])) /\ To(r, "upsert")
  /\ UNCHANGED <<keyOf, item, post, listed, excused>>

\* sql.begin takes a connection, and keeps it to COMMIT or ROLLBACK.
begin(r) ==
  /\ at[r] = "allowed" /\ ConnectionFree
  /\ To(r, "upsert")
  /\ UNCHANGED <<db, tx, keyOf, item, post, listed, excused>>

\* The upsert takes the row of the customer.
UpsertCustomer(r) ==
  /\ at[r] = "upsert"
  /\ PhoneFree(Order(r).customerPhone)
  /\ Insert(r, CustomerRow(Order(r).customerPhone))
  /\ To(r, "order")
  /\ UNCHANGED <<keyOf, item, post, listed, excused>>

InsertOrder(r) ==
  /\ at[r] = "order"
  /\ Order(r).salesmanId \in DOMAIN Salesmen \cup {NoSalesman}
  /\ Insert(r, OrderRow(r))
  /\ To(r, IF Order(r).items = <<>> THEN "sale" ELSE "items")
  /\ UNCHANGED <<keyOf, item, post, listed, excused>>

\* A turn of the loop; the product has to exist.
InsertItem(r) ==
  /\ at[r] = "items"
  /\ Order(r).items[item[r]] \in listed
  /\ Insert(r, ItemRow(r, item[r]))
  /\ item' = [item EXCEPT ![r] = @ + 1]
  /\ To(r, IF item[r] = Len(Order(r).items) THEN "sale" ELSE "items")
  /\ UNCHANGED <<keyOf, post, listed, excused>>

\* Amounts in hundredths.
InsertSale(r) ==
  /\ at[r] = "sale"
  /\ Insert(r, EntryRow(r, "SALE", 100 * Order(r).totalAmount))
  /\ To(r, IF Order(r).salesmanId = NoSalesman THEN "commit" ELSE "commission")
  /\ UNCHANGED <<keyOf, item, post, listed, excused>>

RateReadOutside(r) ==                                                \* mutant
  /\ at[r] = "commission" /\ ConnectionFree
  /\ Insert(r, EntryRow(r, "COMMISSION", Order(r).totalAmount * Salesmen[Order(r).salesmanId]))
  /\ To(r, "commit")
  /\ UNCHANGED <<keyOf, item, post, listed, excused>>
InsertCommission(r) ==
  /\ at[r] = "commission"
  /\ Insert(r, EntryRow(r, "COMMISSION", Order(r).totalAmount * Salesmen[Order(r).salesmanId]))
  /\ To(r, "commit")
  /\ UNCHANGED <<keyOf, item, post, listed, excused>>

CommitOrder(r) ==
  /\ at[r] = "commit"
  /\ db' = db \cup tx[r] /\ tx' = [tx EXCEPT ![r] = {}]
  /\ To(r, "register")
  /\ UNCHANGED <<keyOf, item, post, listed, excused>>

register(r) ==
  /\ at[r] = "register" /\ ConnectionFree
  /\ db' = db \cup {KeyRow(keyOf[r])}
  /\ To(r, "done")
  /\ UNCHANGED <<tx, keyOf, item, post, listed, excused>>

\* An order that names a salesman or product that is not there is rejected.
Rejected(r) ==
  \/ at[r] = "order" /\ Order(r).salesmanId \notin DOMAIN Salesmen \cup {NoSalesman}
  \/ at[r] = "items" /\ Order(r).items[item[r]] \notin listed

\* A statement is rejected or the caller dies: what is not committed is rolled
\* back. The answer of COMMIT may be lost, or register fail: the order stays.
Fail(r) ==
  /\ r \in InTx \/ at[r] \in {"allowed", "register"}
  /\ tx' = [tx EXCEPT ![r] = {}]
  /\ To(r, "failed")
  /\ excused' = IF at[r] = "register" THEN excused \cup {keyOf[r]} ELSE excused
  /\ UNCHANGED <<db, keyOf, item, post, listed>>

ContinueOrder(r) ==
  \/ begin(r) \/ UpsertCustomer(r) \/ InsertOrder(r) \/ InsertItem(r)
  \/ InsertSale(r) \/ InsertCommission(r) \/ CommitOrder(r) \/ register(r)

\* POST /api/customers, on a pool of its own: a client is taken, the INSERT run
\* and the client released. Any error is answered with an id all the same.
Connect(c) ==
  /\ post[c] = "idle"
  /\ Cardinality({d \in Calls : post[d] = "connected"}) < ApiPoolSize
  /\ post' = [post EXCEPT ![c] = "connected"]
  /\ UNCHANGED <<db, tx, at, keyOf, item, listed, excused>>

\* The INSERT of a new phone waits for a transaction that is inserting it.
Insertable(phone) == phone # NoPhone /\ CustomerRow(phone) \notin db
createCustomer(c) ==
  LET phone == PhoneOf[c] IN
  /\ post[c] = "connected"
  /\ Insertable(phone) => PhoneFree(phone)
  /\ \/ /\ Insertable(phone)
        /\ db' = db \cup {CustomerRow(phone)}
        /\ post' = [post EXCEPT ![c] = "created"]
     \/ /\ db' = db
        /\ post' = [post EXCEPT ![c] = "persisted: false"]
  /\ UNCHANGED <<tx, at, keyOf, item, listed, excused>>

IntakeNext ==
  \/ \E p \in Products : AddProduct(p)
  \/ \E r \in Requests, k \in Keys : allow(r, k)
  \/ \E r \in Requests : ContinueOrder(r) \/ Fail(r)
  \/ \E c \in Calls : Connect(c) \/ createCustomer(c)

\* The database runs what it was sent and the driver resumes the caller; a
\* statement the database rejects fails.
IntakeSpec ==
  /\ IntakeInit /\ [][IntakeNext]_intakeVars
  /\ \A r \in Requests : WF_intakeVars(ContinueOrder(r) \/ (Rejected(r) /\ Fail(r)))

-----------------------------------------------------------------------------
Rows(r) == {x \in db : x[1] \in {"orders", "order_items", "ledger_entries"} /\ x[2] = r}
Whole(r) ==
  {OrderRow(r), EntryRow(r, "SALE", 100 * Order(r).totalAmount)}
    \cup {ItemRow(r, i) : i \in DOMAIN Order(r).items}
    \cup {EntryRow(r, "COMMISSION", Order(r).totalAmount * Salesmen[s]) :
            s \in {Order(r).salesmanId} \ {NoSalesman}}
Ordered(k) == {r \in Requests : keyOf[r] = k /\ OrderRow(r) \in db}

\* Whatever fails in the middle of an order, and however many are in progress,
\* others see all rows of it or none: its customer, its items, its sale and the
\* commission of its salesman. One that failed left some only if its key is
\* excused. A call answered without "persisted: false" put its phone on record,
\* alone: the phone of an order is taken, also before its COMMIT.
OrdersWhole ==
  /\ \A r \in Requests : Rows(r) # {} =>
       /\ Rows(r) = Whole(r) /\ CustomerRow(Order(r).customerPhone) \in db
       /\ at[r] = "failed" => keyOf[r] \in excused
  /\ \A c, d \in Calls : post[c] = "created" =>
       /\ CustomerRow(PhoneOf[c]) \in db
       /\ c # d /\ post[d] = "created" => PhoneOf[d] # PhoneOf[c]

\* A registered key stands for an order, so whoever is refused has one. A key
\* has one order only, unless two requests with it were ever between allow and
\* register at once, or one broke after its COMMIT and before register.
OneOrderPerKey ==
  \A k \in Keys :
    /\ isDuplicate(k) => Ordered(k) # {}
    /\ k \notin excused => \A q, r \in Ordered(k) : q = r

\* No order waits for ever: neither for a connection, though all of the pool may
\* be held by orders that wait for one customer's row, nor for that row, whose
\* owner needs no second connection to commit.
OrdersFinish ==
  \A r \in Requests : at[r] = "allowed" ~> at[r] \in {"done", "failed"}
=============================================================================
