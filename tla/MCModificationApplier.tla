------------------------ MODULE MCModificationApplier ------------------------
(***************************************************************************)
(* A network request of two warehouses, two lanes and one location, and    *)
(* all pairs of modifications from a list of paths and values: right ones, *)
(* ambiguous identifiers, containers and identifiers overwritten, wrong    *)
(* fields, indices and segments, and values that do not parse.             *)
(***************************************************************************)
EXTENDS ModificationApplier, TLC

MCNumerals == <<"0", "1", "2">>

\* "^2" stands for the superscript two.
MCDigits ==
  "0" :> 0 @@ "1" :> 1 @@ "2" :> 2 @@ "01" :> 1 @@ "^2" :> NotANumber

Dict == Node("dict", 0)
Warehouse(n, id) ==
  LET at == <<"warehouses", Numerals[n]>>
  IN  at :> Dict @@ Append(at, "warehouse_id") :> Node("str", id)
      @@ Append(at, "capacity_units") :> Node("int", 5)
      @@ Append(at, "is_active") :> Node("bool", TRUE)
Lane(n, warehouse, location) ==
  LET at == <<"shipping_lanes", Numerals[n]>>
  IN  at :> Dict @@ Append(at, "warehouse_id") :> Node("str", warehouse)
      @@ Append(at, "location_id") :> Node("str", location)
      @@ Append(at, "cost_per_unit") :> Node("float", 3)
      @@ Append(at, "max_capacity_units") :> Node("null", 0)

MCOriginals ==
  { <<>> :> Dict @@ <<"warehouses">> :> Node("list", 2)
    @@ Warehouse(1, "WH-1") @@ Warehouse(2, "WH-2")
    @@ <<"shipping_lanes">> :> Node("list", 2)
    @@ Lane(1, "WH-1", "L1") @@ Lane(2, "WH-2", "L1") }

S(key) == [key |-> key, index |-> None]
SI(key, index) == [key |-> key, index |-> index]
Paths ==
  { <<S("warehouses")>>, <<S("is_active")>>, <<SI("warehouses", "1")>>, <<Malformed>>,
    <<S("warehouses"), S("is_active")>>, <<SI("warehouses", "2"), S("is_active")>>,
    <<SI("warehouses", "0"), S("warehouse_id")>>, <<SI("warehouses", "^2"), S("is_active")>> }
  \cup { <<SI("warehouses", key), S(field)>> :
           key \in {"WH-1", "WH-2"}, field \in {"is_active", "capacity_units", "warehouse_id"} }
  \cup { <<SI("shipping_lanes", key), S(field)>> :
           key \in {"01", "L1"}, field \in {"cost_per_unit", "max_capacity_units", "location_id"} }
  \cup { <<SI("shipping_lanes", "L1"), SI("cost_per_unit", "0"), S("x")>> }

MCFloat ==
  "true" :> NotANumber @@ "WH-1" :> NotANumber @@ "L1" :> NotANumber
  @@ "1" :> 2 @@ "-1.5" :> -3 @@ "inf" :> Infinity @@ "nan" :> NaN

Modifications == [path : Paths, value : DOMAIN MCFloat]
MCModLists == { <<a, b>> : a, b \in Modifications }

\* model_validate of the network schemas, where a string may still be a number.
MCAccepts(d) ==
  \A p \in DOMAIN d \ {<<>>} :
    CASE Last(p) \in {"warehouses", "shipping_lanes"} -> d[p].kind = "list"
      [] Last(p) = "capacity_units" -> d[p].value > 0
      [] Last(p) = "cost_per_unit" -> d[p].value \notin {NaN, -3}
      [] Last(p) = "max_capacity_units" ->
           d[p].kind = "null" \/ Float[d[p].value] = 2
      [] OTHER -> TRUE
=============================================================================
