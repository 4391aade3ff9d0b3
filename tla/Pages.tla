------------------------------- MODULE Pages -------------------------------
(***************************************************************************)
(* The pages behind the gate of AppLayout.  The router shows one page at a *)
(* time, and what the models of them have in common, the query cache, each *)
(* keeps for its own queries; so an instance is one of them at work while  *)
(* the others rest in their first state.                                   *)
(***************************************************************************)
EXTENDS Views, TransactionForm, TransactionList, BudgetForm, BankPages, Notices

CONSTANT
    Page        \* the pages that an instance looks at

ASSUME PagesAssumption == Page \subseteq {"views", "form", "list", "budget", "bank", "notices"}

VARIABLE screen     \* what the instance is about

pagesVars == <<screen, viewsVars, formVars, listVars, budgetVars, bankVars, noticesVars>>

PagesInit ==
    /\ screen \in Page
    /\ ViewsInit
    /\ screen # "views" => watched = "transactions"
    /\ FormInit
    /\ ListInit
    /\ BudgetInit
    /\ BankInit
    /\ screen # "bank" => job.status = "idle"
    /\ NoticesInit
    /\ screen # "notices" => coming = {}

PagesNext ==
    /\ UNCHANGED screen
    /\ \/ screen = "views" /\ ViewsNext
          /\ UNCHANGED <<formVars, listVars, budgetVars, bankVars, noticesVars>>
       \/ screen = "form" /\ FormNext
          /\ UNCHANGED <<viewsVars, listVars, budgetVars, bankVars, noticesVars>>
       \/ screen = "list" /\ ListNext
          /\ UNCHANGED <<viewsVars, formVars, budgetVars, bankVars, noticesVars>>
       \/ screen = "budget" /\ BudgetNext
          /\ UNCHANGED <<viewsVars, formVars, listVars, bankVars, noticesVars>>
       \/ screen = "bank" /\ BankNext
          /\ UNCHANGED <<viewsVars, formVars, listVars, budgetVars, noticesVars>>
       \/ screen = "notices" /\ NoticesNext
          /\ UNCHANGED <<viewsVars, formVars, listVars, budgetVars, bankVars>>

PagesSpec == PagesInit /\ [][PagesNext]_pagesVars /\ ViewsFairness /\ BankFairness
=============================================================================
