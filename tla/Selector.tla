------------------------------ MODULE Selector ------------------------------
(***************************************************************************)
(* The selector of utils/selector: a table of items indexed by descriptor, *)
(* the largest descriptor in use and the master sets it hands to           *)
(* pselect().  A call of the library is an operator from selector to       *)
(* selector, so that a callback can be written as the calls it makes.      *)
(*                                                                         *)
(* The operators commented "Mutant" are plausible bugs: nothing uses them, *)
(* and put in the place of the operator they are named after they must     *)
(* break a property.                                                       *)
(***************************************************************************)
EXTENDS Integers, FiniteSets

CONSTANTS
  ItemsMax,  \* ITEMS_MAX_SIZE, that is FD_SETSIZE
  FdMax      \* the largest number the kernel gives to a descriptor

ASSUME SelectorAssumption ==
  /\ ItemsMax \in Nat \ {0}
  /\ FdMax \in Nat
  /\ FdMax <= ItemsMax

Fd == 0 .. FdMax
NoFd == -1

Operations == {"READ", "WRITE"}

\* item_init: an item nobody uses
Unused == [used |-> FALSE, handler |-> "none", interest |-> {}, data |-> "none"]

\* selector_new
EmptySelector ==
  [items |-> [fd \in Fd |-> Unused], max_fd |-> 0, read |-> {}, write |-> {}]

Known(s, fd) == fd \in Fd /\ fd < ItemsMax /\ s.items[fd].used

Membership(set, fd, present) == IF present THEN set \union {fd} ELSE set \ {fd}

items_update_fdset_for_fd(s, fd) ==
  [s EXCEPT !.read = Membership(@, fd, "READ" \in s.items[fd].interest),
            !.write = Membership(@, fd, "WRITE" \in s.items[fd].interest)]

\* items_max_fd: 0 when there is no item left
items_max_fd(items) ==
  LET used == {fd \in Fd : items[fd].used} IN
  IF used = {} THEN 0 ELSE CHOOSE fd \in used : \A other \in used : other <= fd

\* The arguments selector_register takes: a descriptor that select() can handle
\* and that no item has
Registrable(s, fd) == fd \in Fd /\ fd < ItemsMax /\ ~s.items[fd].used

\* Mutant: the largest descriptor is the last registered
selector_register_LastIsMax(s, fd, handler, interest, data) ==
  items_update_fdset_for_fd(
    [s EXCEPT !.items[fd] = [used |-> TRUE, handler |-> handler,
                             interest |-> interest, data |-> data],
              !.max_fd = fd], fd)

selector_register(s, fd, handler, interest, data) ==
  items_update_fdset_for_fd(
    [s EXCEPT !.items[fd] = [used |-> TRUE, handler |-> handler,
                             interest |-> interest, data |-> data],
              !.max_fd = IF fd > @ THEN fd ELSE @], fd)

\* Mutant: the item is only marked as unused
Forget_OnlyMarks(s, fd) ==
  [s EXCEPT !.items[fd].used = FALSE, !.read = @ \ {fd}, !.write = @ \ {fd}]

\* What selector_unregister_fd does after it has called handle_close
Forget(s, fd) ==
  LET cleared == items_update_fdset_for_fd([s EXCEPT !.items[fd].interest = {}], fd)
      items == [s.items EXCEPT ![fd] = Unused]
  IN [cleared EXCEPT !.items = items, !.max_fd = items_max_fd(items)]

selector_set_interest(s, fd, interest) ==
  IF Known(s, fd)
    THEN items_update_fdset_for_fd([s EXCEPT !.items[fd].interest = interest], fd)
    ELSE s

\* The sets pselect() is called with are the interests of the items in use,
\* and it is told of all of them.
MastersMatchItems(s) ==
  /\ s.read = {fd \in Fd : s.items[fd].used /\ "READ" \in s.items[fd].interest}
  /\ s.write = {fd \in Fd : s.items[fd].used /\ "WRITE" \in s.items[fd].interest}
  /\ \A fd \in s.read \union s.write : fd <= s.max_fd
=============================================================================
