CONSTANTS
  Texts <- SomeTexts
  Others <- OtherTexts
  Selectors <- SomeSelectors
  Recipes <- SomeRecipes
  Contents <- LinesAndBrace
  Repairs <- RepairsOpen
SPECIFICATION EditSpec
INVARIANTS EditInv SelectorsMean EditExact BrokenNeverHigh RecipeGate
CHECK_DEADLOCK FALSE
