------------------------------- MODULE Rating -------------------------------
(***************************************************************************)
(* The arithmetic of RateUserViewController.completeButtonTapped.  Ratings *)
(* are kept in hundredths: the code rounds them to two decimals before     *)
(* they are stored, so every stored rating is a whole number of them.      *)
(***************************************************************************)
EXTENDS Integers

numOfCategories == 3

(* round(): to the nearest whole number, halves away from zero (a >= 0, b > 0) *)
RoundedQuotient(a, b) == (2 * a + b) \div (2 * b)

(* Mutant: the stars are added up and not averaged over the categories. *)
NewRatingOfSum(currentRating, numOfRatings, stars) ==
    RoundedQuotient(currentRating * numOfRatings + 100 * stars, numOfRatings + 1)

(* givenRating is the mean of the star rows; `stars` is their sum.            *)
(*   (currentRating * numOfRatings + givenRating) / (numOfRatings + 1)        *)
(* brought over the common denominator numOfCategories * (numOfRatings + 1).  *)
NewUserRating(currentRating, numOfRatings, stars) ==
    RoundedQuotient(numOfCategories * currentRating * numOfRatings + 100 * stars,
                    numOfCategories * (numOfRatings + 1))

(* One to five stars per category. *)
StarSums == numOfCategories .. 5 * numOfCategories

(* The hundredths a rated user can have. *)
RatingRange == 100 .. 500
=============================================================================
