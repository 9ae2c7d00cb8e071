---------------------------- MODULE ExchangeFeed ----------------------------
(***************************************************************************)
(* The exchange as the client sees it (external): it numbers its messages  *)
(* 1, 2, 3, ... and each one is legal for the orders then on its book.     *)
(* Order references are handed out in increasing order, which is what the  *)
(* decoder's vector indexed by reference relies on.                        *)
(***************************************************************************)
EXTENDS ItchDecoder

CONSTANTS
    MsgTypes,   \* message types the exchange publishes
    MaxQty,     \* bound on the quantity of an order
    MaxSeq      \* bound on the number of messages published

ASSUME FeedAssumption == MaxQty \in Nat /\ MaxSeq \in Nat

VARIABLES
    feed,       \* feed[n] is the message with sequence number n
    books       \* books[n]: quantity of every order, by reference, after message n

Book(n) == IF n = 0 THEN <<>> ELSE books[n]

Live(n) == {r \in DOMAIN Book(n) : Book(n)[r] # 0}

\* Messages the exchange may publish next.
LegalMessages ==
    LET book  == Book(Len(feed))
        live  == Live(Len(feed))
        fresh == Len(book) + 1
        legal ==
            {Message("ADD", fresh, 0, q) : q \in 1..MaxQty}
            \cup {Message(t, r, 0, q) : t \in {"EXECUTE", "CANCEL"}, r \in live, q \in 1..MaxQty}
            \cup {Message("DELETE", r, 0, 0) : r \in live}
            \cup {Message("REPLACE", r, fresh, q) : r \in live, q \in 1..MaxQty}
    IN  {m \in legal : /\ m.type \in MsgTypes
                       /\ m.type \in {"EXECUTE", "CANCEL"} => m.qty <= book[m.ref]}

\* The exchange's book after a message.
BookAfter(book, msg) ==
    LET kept  == CASE msg.type \in {"EXECUTE", "CANCEL"} -> [book EXCEPT ![msg.ref] = @ - msg.qty]
                   [] msg.type \in {"DELETE", "REPLACE"} -> [book EXCEPT ![msg.ref] = 0]
                   [] OTHER -> book
    IN  IF msg.type \in {"ADD", "REPLACE"} THEN Append(kept, msg.qty) ELSE kept

FeedInit == feed = <<>> /\ books = <<>>

Publish(msg) ==
    /\ Len(feed) < MaxSeq
    /\ feed' = Append(feed, msg)
    /\ books' = Append(books, BookAfter(Book(Len(feed)), msg))

=============================================================================
