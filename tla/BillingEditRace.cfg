SPECIFICATION Spec
CONSTANTS
    o1 = o1
    o2 = o2
    c1 = c1
    c2 = c2
    Orders = {o1}
    Customers = {c1}
    CustomerOf <- OneCustomer
    CurrencyOf <- AllUsd
    Invoices = {i1}
    Keys = {k1}
    Amounts = {1, 2}
    Volatile = {}
    Creators = {r1}
    Editors = {e1}
    Issuers = {s1, s2}
    MaxFailures = 0
    NULL = NULL
CHECK_DEADLOCK FALSE
INVARIANT IssuedLinesAreCharged
