----------------------------- MODULE Pagination -----------------------------
(***************************************************************************)
(* Pages of a list: the arithmetic of web/pagination.go and the scope of   *)
(* web/services/pagination.go.  Page and page size are what the query      *)
(* asks for, of any sign; a text that is no number is the default.         *)
(***************************************************************************)
EXTENDS Integers, Sequences

CONSTANT Unrepresentable   \* int() of an infinite or undefined float64: the build's smallest integer

ASSUME UnrepresentableAssumption == Unrepresentable \in Int /\ Unrepresentable < 0

(* The quotient of floats, truncated towards zero by int().                *)
getPageCount(items, perPage) ==
  LET n == items + perPage - 1
  IN  CASE perPage > 0 -> n \div perPage
        [] perPage = 0 -> Unrepresentable
        [] perPage < 0 /\ n >= 0 -> -(n \div (-perPage))
        [] OTHER -> (-n) \div (-perPage)

PageIndex_Unbounded(items, page, perPage) == IF page < 1 \/ items = 0 THEN 1 ELSE page

(* NewPagination: the page that is shown for the one that is asked.        *)
PageIndex(items, page, perPage) ==
  CASE page < 1 \/ items = 0 -> 1
    [] page >= 1 /\ items # 0 /\ page > getPageCount(items, perPage) -> getPageCount(items, perPage)
    [] OTHER -> page

Least(a, b) == IF a < b THEN a ELSE b

(* The slice is from first to last, counted from zero, without the last.   *)
FirstElem(index, perPage) == (index - 1) * perPage
LastElem(items, index, perPage) == Least(items, index * perPage)

(* The links below a list.                                                 *)
GetCurrentPages(items, index, perPage) ==
  {i \in 1 .. getPageCount(items, perPage) : i >= index - 2 /\ i <= index + 2}

(* Slicing outside of a list panics; gin.Recovery makes it a 500.          *)
SliceFails(items, page, perPage) ==
  LET index == PageIndex(items, page, perPage)
      first == FirstElem(index, perPage)
      last == LastElem(items, index, perPage)
  IN  ~(0 <= first /\ first <= last /\ last <= items)

Slice(list, page, perPage) ==
  LET index == PageIndex(Len(list), page, perPage)
  IN  SubSeq(list, FirstElem(index, perPage) + 1, LastElem(Len(list), index, perPage))

(* Offset and Limit of a query: gorm leaves out what is not positive.      *)
Offset(number, size) ==
  LET page == IF number = 0 THEN 1 ELSE number
  IN  IF (page - 1) * size > 0 THEN (page - 1) * size ELSE 0

Paginate(result, number, size) ==
  LET rest == SubSeq(result, Offset(number, size) + 1, Len(result))
  IN  IF size > 0 THEN SubSeq(rest, 1, Least(size, Len(rest))) ELSE rest

=============================================================================
