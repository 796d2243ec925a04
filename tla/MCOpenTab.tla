----------------------------- MODULE MCOpenTab -----------------------------
EXTENDS OpenTab
Everything == Queries
AnyChange == Mutations
BudgetPage == {GetBudgetOverview}
BudgetChanges == BudgetWrites
=============================================================================
