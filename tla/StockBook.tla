------------------------------- MODULE StockBook -------------------------------
(***************************************************************************)
(* What the stock tables promise, without requests, reservations or calls:  *)
(* a book of balances in which a movement happens at most once, takes from  *)
(* one location exactly what it adds to another, and no step of any kind    *)
(* leaves a balance below zero.                                             *)
(***************************************************************************)
EXTENDS Integers

CONSTANTS
  Products, Locations, Opening,
  Movements,   \* the ids of the movements that may happen
  MaxMove      \* bound: the largest quantity one movement takes of a product

VARIABLES balance, moved

bookVars == <<balance, moved>>

BookRows == Products \X Locations

BookInit == balance = Opening /\ moved = {}

\* qty[p] of every product p goes from src to dst.
Move(m) ==
  /\ m \notin moved
  /\ \E src, dst \in Locations, qty \in [Products -> 0..MaxMove] :
       /\ src # dst
       /\ \A r \in BookRows : r[2] = src => qty[r[1]] <= balance[r]
       /\ balance' = [r \in BookRows |->
            IF r[2] = src THEN balance[r] - qty[r[1]]
            ELSE IF r[2] = dst THEN balance[r] + qty[r[1]]
            ELSE balance[r]]
  /\ moved' = moved \cup {m}

\* A correction of any rows, which leaves none below zero.
Correct ==
  /\ balance' \in [BookRows -> Nat]
  /\ moved' = moved

BookNext == (\E m \in Movements : Move(m)) \/ Correct

BookSpec == BookInit /\ [][BookNext]_bookVars
=============================================================================
